---------------------------- MODULE Spec2Model ----------------------------
(***************************************************************************)
(* Conversation-tree and long-context transformation engine of Claude-QoL: *)
(* token estimation and chunking (file-download.js), oversized-message     *)
(* splitting and alternation repair (file-download.js), the phantom        *)
(* overlay (phantom-messages.js), the message wire format and the tree     *)
(* queries of the conversation accessor (claude-api.js).                   *)
(*                                                                         *)
(* Representation.  A uuid is a natural number: ROOT is the sentinel       *)
(* "00000000-0000-4000-8000-000000000000", crypto.randomUUID() draws the   *)
(* next value of the counter nextUuid above FreshBase.  A text is a        *)
(* sequence of segments [s, n]: s names the characters, n counts them;     *)
(* string concatenation is \o.  An attachment's extracted content is a     *)
(* string over {newline, other}: [len, nl] with nl the set of 0-based      *)
(* positions holding a newline.  An optional value is <<>> (absent) or     *)
(* <<v>> (present).                                                        *)
(***************************************************************************)
EXTENDS Integers, Sequences, FiniteSets, TLC

VARIABLES
    \* file-download.js: chunker and repair
    messages,       \* the linear ClaudeMessage[] handed to the operation
    op,             \* the operation applied last ("none" before any)
    maxTokens,      \* takeMessagesFromEnd: its maxTokens argument
    greedy,         \* takeMessagesFromEnd: its greedy argument
    splitIndex,     \* takeMessagesFromEnd: the returned count
    chunks,         \* calculateChunkBoundaries: the returned Message[][]
    out,            \* normalizeOversizedMessages / cleanupMessages: the returned list
    nextUuid,       \* number of uuids crypto.randomUUID() has handed out
    \* phantom-messages.js: overlay
    phantomStore,   \* the persisted phantom sequence of the conversation (IndexedDB)
    chat_messages,  \* the remote's real messages of the conversation
    lastRead,       \* the conversation data the read interceptor returned last
    forwarded,      \* the completion requests forwarded: declared and sent parent
    timedOut,       \* whether some phantom lookup ran into its 5 s timeout
    \* claude-api: wire format
    msg,            \* a ClaudeMessage
    restored,       \* ClaudeMessage.fromHistoryJSON(msg.toHistoryJSON()), or msg.toHistoryJSON()
    completion,     \* sendMessageAndWaitForResponse(msg): the requests posted, the error thrown
    rehomed,        \* a file re-homed or attached: source, arguments, result, requests
    \* claude-api: tree queries
    conversationData,   \* chat_messages of the cached conversation data
    longest,            \* findLongestLeaf(ROOT)
    branch,             \* the leaf-to-root walk from longest.leafId
    current_leaf_message_uuid,  \* raw JSON import: the leaf named by the file
    rawImport,          \* what parseRawClaudeJson returned or threw
    \* exporter.js: tagged-text export and import
    exported,       \* the lines of the exported text file
    imported,       \* what parseAndValidateText returned or threw
    \* file-download.js: fork flow
    pendingFork,        \* the fork settings chosen in the dialog
    review,             \* the summary review modal: "none", "open", "cancelled", "submitted"
    summaryTexts,       \* the summaries received so far, then the review's textareas
    forkAttachments,    \* the {text, filename} list handed to createFork
    tempConversation,   \* the scratch conversation: created, inFlight, requests, deletes
    forkConversation,   \* the destination: created, stored phantoms, turns sent
    \* claude-api, global-search.js, phantom-messages.js: asynchronous operations
    conv,           \* a ClaudeConversation object: conversationData, the calls made on it
    sync,           \* syncConversationsIndividually: syncCancelled, completed, the workers
    bridge          \* the phantom read round trips between the page and the store

chunkVars   == <<messages, op, maxTokens, greedy, splitIndex, chunks, out, nextUuid>>
phantomVars == <<phantomStore, chat_messages, lastRead, forwarded, timedOut>>
wireVars    == <<msg, restored, completion, rehomed>>
treeVars    == <<conversationData, longest, branch, current_leaf_message_uuid, rawImport>>
textVars    == <<exported, imported>>
forkVars    == <<pendingFork, review, summaryTexts, forkAttachments, tempConversation,
                 forkConversation>>
asyncVars   == <<conv, sync, bridge>>
laterVars   == <<textVars, forkVars, asyncVars>>
vars        == <<chunkVars, phantomVars, wireVars, treeVars, laterVars>>

----------------------------------------------------------------------------
(* Program constants *)

ROOT == 0
LAST_CHUNK_SIZE == 15000
MAIN_TARGET_CHUNK == 30000
ATTACHMENT_CHAR_LIMIT == 15000

(* Bounds of the model *)

MaxMsgs == 4            \* longest message list given to the chunker
MaxClean == 4           \* longest message list given to cleanupMessages
MaxNorm == 2            \* longest message list given to normalizeOversizedMessages
MaxPhantom == 2         \* longest stored phantom sequence
MaxReal == 3            \* most messages the remote conversation holds
MaxFresh == 2           \* most uuids drawn by the overlay reads of one run
MaxPosts == 2           \* most completion requests of one run
PhantomBase == 10       \* uuids of stored phantom messages start above this
MaxFiles == 2           \* most files of a message put through the wire format
MaxTree == 4            \* most messages of a conversation tree
FreshBase == 100        \* first uuid handed out by crypto.randomUUID()

----------------------------------------------------------------------------
(* Generic helpers *)

None == <<>>
Some(v) == <<v>>

RECURSIVE SeqSum(_)
SeqSum(s) == IF s = <<>> THEN 0 ELSE Head(s) + SeqSum(Tail(s))

RECURSIVE Flatten(_)
Flatten(ss) == IF ss = <<>> THEN <<>> ELSE Head(ss) \o Flatten(Tail(ss))

Reverse(s) == [i \in 1..Len(s) |-> s[Len(s) + 1 - i]]

RECURSIVE SelectIdx(_, _)
\* Array.prototype.filter on a list of naturals
SelectIdx(s, keep) ==
    IF s = <<>> THEN <<>>
    ELSE (IF Head(s) \in keep THEN <<Head(s)>> ELSE <<>>) \o SelectIdx(Tail(s), keep)

SeqsUpTo(S, n) == UNION {[1..k -> S] : k \in 0..n}

Other(sender) == IF sender = "human" THEN "assistant" ELSE "human"

----------------------------------------------------------------------------
(* Texts and content blocks *)

Seg(s, n) == [s |-> s, n |-> n, u |-> 0]
Str(s, n) == <<Seg(s, n)>>
TextLen(t) == SeqSum([i \in 1..Len(t) |-> t[i].n])

ACK_TEXT      == Str("Acknowledged.", 13)
CONTINUE_TEXT == Str("Continue.", 9)
CONT_TEXT     == Str("[Continued attachments from previous message]", 45)

TextBlock(t) == [type |-> "text", text |-> Some(t)]
ToolBlock(ty) == [type |-> ty, text |-> None]

\* ClaudeConversation.extractMessageText(message).length, for content blocks
\* that carry at most a text (no tool input, no nested content)
extractMessageTextLength(message) ==
    LET pieces == SelectSeq(message.content,
                            LAMBDA c : c.text # None /\ TextLen(c.text[1]) > 0)
    IN  IF pieces = <<>> THEN 0
        ELSE SeqSum([i \in 1..Len(pieces) |-> TextLen(pieces[i].text[1])])
             + (Len(pieces) - 1)

\* get text(): the text blocks joined by "\n\n"
RECURSIVE JoinTexts(_)
JoinTexts(ts) ==
    IF ts = <<>> THEN <<>>
    ELSE IF Len(ts) = 1 THEN ts[1]
    ELSE ts[1] \o Str("\n\n", 2) \o JoinTexts(Tail(ts))

textOf(m) ==
    LET textBlocks == SelectSeq(m.content, LAMBDA c : c.type = "text")
    IN  JoinTexts([i \in 1..Len(textBlocks) |->
                     IF textBlocks[i].text = None THEN <<>> ELSE textBlocks[i].text[1]])

----------------------------------------------------------------------------
(* Files *)

Content(len, nl) == [len |-> len, nl |-> nl]

ClaudeAttachment(name, content) ==
    [cls |-> "ClaudeAttachment", file_uuid |-> None, file_name |-> name,
     file_kind |-> None, path |-> None, extracted_content |-> Some(content),
     force_attachment_mode |-> FALSE,
     file_size |-> Some(content.len), file_type |-> Some("text/plain")]

ClaudeFile(uuid, name, kind) ==
    [cls |-> "ClaudeFile", file_uuid |-> Some(uuid), file_name |-> name,
     file_kind |-> Some(kind), path |-> None, extracted_content |-> None,
     force_attachment_mode |-> FALSE, file_size |-> None, file_type |-> None]

ClaudeCodeExecutionFile(uuid, name, kind, path, extracted, force) ==
    [cls |-> "ClaudeCodeExecutionFile", file_uuid |-> Some(uuid), file_name |-> name,
     file_kind |-> Some(kind), path |-> Some(path), extracted_content |-> extracted,
     force_attachment_mode |-> force, file_size |-> None, file_type |-> None]

\* new ClaudeMessage(conversation) with the fields the flows assign
Message(uuid, parent, sender, content, files, created_at) ==
    [uuid |-> uuid, parent_message_uuid |-> parent, sender |-> sender,
     content |-> content, files |-> files, created_at |-> created_at, index |-> 0]

----------------------------------------------------------------------------
(* Token estimation and takeFromEnd *)

CeilDiv(a, b) == (a + b - 1) \div b

attachmentChars(m) ==
    SeqSum([i \in 1..Len(m.files) |->
              IF m.files[i].cls = "ClaudeAttachment" /\ m.files[i].extracted_content # None
              THEN m.files[i].extracted_content[1].len ELSE 0])

estimateTokens(ms) ==
    CeilDiv(SeqSum([i \in 1..Len(ms) |->
                      extractMessageTextLength(ms[i]) + attachmentChars(ms[i])]), 4)

RECURSIVE TakeLoop(_, _, _, _, _, _)
\* the for loop of takeMessagesUpToTokens; i is 1-based, so splitIndex = i
\* where the source assigns i + 1
TakeLoop(ms, maxTok, grdy, i, totalTokens, split) ==
    IF i > Len(ms) THEN split
    ELSE LET msgTokens == estimateTokens(<<ms[i]>>)
         IN  IF totalTokens + msgTokens > maxTok /\ split > 0
             THEN (IF ~grdy THEN split ELSE i)
             ELSE TakeLoop(ms, maxTok, grdy, i + 1, totalTokens + msgTokens, i)

RECURSIVE TakeLoopNoBreak(_, _, _, _, _, _)
\* mutant: the conservative branch takes the crossing message too
TakeLoopNoBreak(ms, maxTok, grdy, i, totalTokens, split) ==
    IF i > Len(ms) THEN split
    ELSE LET msgTokens == estimateTokens(<<ms[i]>>)
         IN  IF totalTokens + msgTokens > maxTok /\ split > 0
             THEN i
             ELSE TakeLoopNoBreak(ms, maxTok, grdy, i + 1, totalTokens + msgTokens, i)

takeMessagesUpToTokens_overshoot(ms, maxTok, grdy) ==
    LET s == TakeLoopNoBreak(ms, maxTok, grdy, 1, 0, 0)
    IN  IF s = 0 THEN 1 ELSE s

takeMessagesUpToTokens(ms, maxTok, grdy) ==
    LET s == TakeLoop(ms, maxTok, grdy, 1, 0, 0)
    IN  IF s = 0 THEN 1 ELSE s

takeMessagesFromEnd(ms, maxTok, grdy) ==
    takeMessagesUpToTokens(Reverse(ms), maxTok, grdy)

----------------------------------------------------------------------------
(* calculateChunkBoundaries *)

\* mutant: the boundary is left where the token budget put it
adjustToHuman_skip(remaining, count) == count

RECURSIVE adjustToHuman(_, _)
\* while (count < remaining.length &&
\*        remaining[remaining.length - count].sender !== 'human') count++
adjustToHuman(remaining, count) ==
    IF count < Len(remaining) /\ remaining[Len(remaining) - count + 1].sender # "human"
    THEN adjustToHuman(remaining, count + 1)
    ELSE count

sliceLast(s, k) == SubSeq(s, Len(s) - k + 1, Len(s))     \* s.slice(-k), k >= 1
sliceButLast(s, k) == SubSeq(s, 1, Len(s) - k)           \* s.slice(0, -k), k >= 1

\* Math.round of a non-negative quotient a / b
RoundDiv(a, b) == (2 * a + b) \div (2 * b)

Max(a, b) == IF a >= b THEN a ELSE b

RECURSIVE frontLoop(_, _, _, _, _)
frontLoop(remaining, i, numFrontChunks, targetPerChunk, frontChunks) ==
    IF i >= numFrontChunks \/ Len(remaining) = 0 THEN frontChunks
    ELSE LET takeCount == IF i = numFrontChunks - 1 THEN Len(remaining)
                          ELSE takeMessagesFromEnd(remaining, targetPerChunk, FALSE)
             adjusted  == adjustToHuman(remaining, takeCount)
             adjustedTakeCount == IF adjusted >= Len(remaining) THEN Len(remaining)
                                  ELSE adjusted
         IN  frontLoop(sliceButLast(remaining, adjustedTakeCount), i + 1,
                       numFrontChunks, targetPerChunk,
                       <<sliceLast(remaining, adjustedTakeCount)>> \o frontChunks)

RECURSIVE frontLoop_dropRest(_, _, _, _, _)
\* mutant: the last front chunk is sized like the others, so older messages
\* can be left behind
frontLoop_dropRest(remaining, i, numFrontChunks, targetPerChunk, frontChunks) ==
    IF i >= numFrontChunks \/ Len(remaining) = 0 THEN frontChunks
    ELSE LET takeCount == takeMessagesFromEnd(remaining, targetPerChunk, FALSE)
             adjusted  == adjustToHuman(remaining, takeCount)
             adjustedTakeCount == IF adjusted >= Len(remaining) THEN Len(remaining)
                                  ELSE adjusted
         IN  frontLoop_dropRest(sliceButLast(remaining, adjustedTakeCount), i + 1,
                       numFrontChunks, targetPerChunk,
                       <<sliceLast(remaining, adjustedTakeCount)>> \o frontChunks)

frontChunksOf_dropRest(remaining) ==
    LET remainingTokens == estimateTokens(remaining)
        numFrontChunks  == Max(1, RoundDiv(remainingTokens, MAIN_TARGET_CHUNK))
        targetPerChunk  == CeilDiv(remainingTokens, numFrontChunks)
    IN  frontLoop_dropRest(remaining, 0, numFrontChunks, targetPerChunk, <<>>)

frontChunksOf(remaining) ==
    LET remainingTokens == estimateTokens(remaining)
        numFrontChunks  == Max(1, RoundDiv(remainingTokens, MAIN_TARGET_CHUNK))
        targetPerChunk  == CeilDiv(remainingTokens, numFrontChunks)
    IN  frontLoop(remaining, 0, numFrontChunks, targetPerChunk, <<>>)

calculateChunkBoundaries(ms) ==
    IF estimateTokens(ms) < 2 * LAST_CHUNK_SIZE THEN <<ms>>
    ELSE LET lastChunkCount ==
                 adjustToHuman(ms, takeMessagesFromEnd(ms, LAST_CHUNK_SIZE, TRUE))
         IN  IF lastChunkCount >= Len(ms) THEN <<ms>>
             ELSE frontChunksOf(sliceButLast(ms, lastChunkCount))
                  \o <<sliceLast(ms, lastChunkCount)>>

----------------------------------------------------------------------------
(* splitOversizedAttachment: an attachment in API format is                 *)
(* [file_name, extracted_content]; file_name is [name, part], part 0 for   *)
(* the original name and N for `${baseName}_part${N}${extension}`.         *)

FileName(name, part) == [name |-> name, part |-> part]

\* String.prototype.lastIndexOf('\n', from): -1 when there is none
lastIndexOfNewline(c, from) ==
    LET S == {p \in c.nl : p <= from}
    IN  IF S = {} THEN -1 ELSE CHOOSE p \in S : \A q \in S : q <= p

sliceTo(c, e) == Content(e, {p \in c.nl : p < e})                  \* c.slice(0, e)
\* mutant: the rest of the content loses its line breaks
sliceFrom_flat(c, e) == Content(c.len - e, {})

sliceFrom(c, e) == Content(c.len - e, {p - e : p \in {q \in c.nl : q >= e}})  \* c.slice(e)

maxChars == LAST_CHUNK_SIZE * 4

RECURSIVE splitLoop(_, _, _, _)
\* the while loop of splitOversizedAttachment
splitLoop(name, remaining, partNum, parts) ==
    IF remaining.len = 0 THEN parts
    ELSE LET chunkEnd0 == IF remaining.len < maxChars THEN remaining.len ELSE maxChars
             lastNewline == lastIndexOfNewline(remaining, chunkEnd0)
             chunkEnd == IF chunkEnd0 < remaining.len /\ 2 * lastNewline > maxChars
                         THEN lastNewline + 1 ELSE chunkEnd0
         IN  splitLoop(name, sliceFrom(remaining, chunkEnd), partNum + 1,
                       Append(parts, [file_name |-> FileName(name, partNum),
                                      extracted_content |-> sliceTo(remaining, chunkEnd)]))

splitOversizedAttachment(attachment) ==
    IF attachment.extracted_content.len <= maxChars THEN <<attachment>>
    ELSE splitLoop(attachment.file_name.name, attachment.extracted_content, 1, <<>>)

\* ClaudeAttachment.toApiFormat, restricted to the fields read here
attachmentToApi(f) ==
    [file_name |-> f.file_name,
     extracted_content |-> IF f.extracted_content = None THEN Content(0, {})
                           ELSE f.extracted_content[1]]

----------------------------------------------------------------------------
(* normalizeOversizedMessages *)

attTokens(a) == CeilDiv(a.extracted_content.len, 4)

RECURSIVE binLoop(_, _, _, _)
\* the binning loop: attachmentChunks, currentChunk, currentTokens
binLoop(atts, attachmentChunks, currentChunk, currentTokens) ==
    IF atts = <<>>
    THEN (IF Len(currentChunk) > 0 THEN Append(attachmentChunks, currentChunk)
          ELSE attachmentChunks)
    ELSE LET a == Head(atts)
             t == attTokens(a)
         IN  IF t > LAST_CHUNK_SIZE
             THEN (IF Len(currentChunk) > 0
                   THEN binLoop(Tail(atts), attachmentChunks \o <<currentChunk, <<a>>>>,
                                <<>>, 0)
                   ELSE binLoop(Tail(atts), Append(attachmentChunks, <<a>>),
                                currentChunk, currentTokens))
             ELSE IF currentTokens + t > LAST_CHUNK_SIZE
             THEN binLoop(Tail(atts), Append(attachmentChunks, currentChunk), <<a>>, t)
             ELSE binLoop(Tail(atts), attachmentChunks, Append(currentChunk, a),
                          currentTokens + t)

msgAttachmentsOf(m) == SelectSeq(m.files, LAMBDA f : f.cls = "ClaudeAttachment")
msgNonAttachmentsOf(m) == SelectSeq(m.files, LAMBDA f : f.cls # "ClaudeAttachment")

\* processedAttachments: msgAttachments.flatMap(splitOversizedAttachment)
processedAttachmentsOf(m) ==
    LET atts == msgAttachmentsOf(m)
    IN  Flatten([i \in 1..Len(atts) |-> splitOversizedAttachment(attachmentToApi(atts[i]))])

attachmentChunksOf(m) == binLoop(processedAttachmentsOf(m), <<>>, <<>>, 0)

needsSplit(m) ==
    ~(estimateTokens(<<m>>) <= LAST_CHUNK_SIZE \/ Len(msgAttachmentsOf(m)) = 0)

fromJSONAttachments(bin) ==
    [j \in 1..Len(bin) |-> ClaudeAttachment(bin[j].file_name, bin[j].extracted_content)]

\* the uuid of the chunk message of bin i: msg.uuid for the last, fresh otherwise
\* mutant: the first bin keeps the original id
chunkUuid_first(m, i, isLast, n) == IF i = 1 \/ isLast THEN m.uuid ELSE FreshBase + n

chunkUuid(m, i, isLast, n) == IF isLast THEN m.uuid ELSE FreshBase + n

RECURSIVE splitMessageLoop(_, _, _, _, _, _)
\* the for loop over attachmentChunks; i is 1-based, n counts the uuids drawn
splitMessageLoop(m, attachmentChunks, i, previousUuid, acc, n) ==
    IF i > Len(attachmentChunks) THEN [list |-> acc, next |-> n]
    ELSE LET isLast == i = Len(attachmentChunks)
             chunkMsg ==
                 Message(chunkUuid(m, i, isLast, n), previousUuid, m.sender,
                         IF i = 1 THEN m.content ELSE <<TextBlock(CONT_TEXT)>>,
                         (IF i = 1 THEN msgNonAttachmentsOf(m) ELSE <<>>)
                             \o fromJSONAttachments(attachmentChunks[i]),
                         m.created_at)
             n1 == IF isLast THEN n ELSE n + 1
             ackMsg == Message(FreshBase + n1, chunkMsg.uuid, Other(m.sender),
                               <<TextBlock(ACK_TEXT)>>, <<>>, m.created_at)
         IN  IF isLast
             THEN splitMessageLoop(m, attachmentChunks, i + 1, chunkMsg.uuid,
                                   Append(acc, chunkMsg), n1)
             ELSE splitMessageLoop(m, attachmentChunks, i + 1, ackMsg.uuid,
                                   acc \o <<chunkMsg, ackMsg>>, n1 + 1)

RECURSIVE normalizeLoop(_, _, _)
normalizeLoop(ms, normalized, n) ==
    IF ms = <<>> THEN [list |-> normalized, next |-> n]
    ELSE LET m == Head(ms)
         IN  IF ~needsSplit(m) THEN normalizeLoop(Tail(ms), Append(normalized, m), n)
             ELSE LET r == splitMessageLoop(m, attachmentChunksOf(m), 1,
                                            m.parent_message_uuid, <<>>, n)
                  IN  normalizeLoop(Tail(ms), normalized \o r.list, r.next)

normalizeOversizedMessages(ms, n) == normalizeLoop(ms, <<>>, n)

----------------------------------------------------------------------------
(* cleanupMessages *)

\* msg.content?.[0]?.text || ''
firstText(m) ==
    IF m.content = <<>> \/ m.content[1].text = None THEN <<>> ELSE m.content[1].text[1]

removeAt(s, i, k) == SubSeq(s, 1, i - 1) \o SubSeq(s, i + k, Len(s))   \* s.splice(i, k)

RECURSIVE removeContinuations(_, _)
\* step 1; i is 1-based
removeContinuations(cleaned, i) ==
    IF i > Len(cleaned) THEN cleaned
    ELSE IF firstText(cleaned[i]) = CONT_TEXT
    THEN LET expectedAckSender == Other(cleaned[i].sender)
             hasPrevAck == /\ i > 1
                           /\ cleaned[i - 1].sender = expectedAckSender
                           /\ firstText(cleaned[i - 1]) = ACK_TEXT
         IN  IF hasPrevAck THEN removeContinuations(removeAt(cleaned, i - 1, 2), i - 1)
             ELSE removeContinuations(removeAt(cleaned, i, 1), i)
    ELSE removeContinuations(cleaned, i + 1)

\* mutant: the comparison is inverted
needsFiller_inverted(current, next) == current.sender # next.sender

\* the test of step 2: current.sender === next.sender
needsFiller(current, next) == current.sender = next.sender

RECURSIVE fixSameSender(_, _, _)
\* step 2; i is 1-based, n counts the uuids drawn
fixSameSender(cleaned, i, n) ==
    IF i >= Len(cleaned) THEN [list |-> cleaned, next |-> n]
    ELSE LET current == cleaned[i]
             next == cleaned[i + 1]
             fillerSender == Other(current.sender)
             fillerText == IF fillerSender = "assistant" THEN ACK_TEXT ELSE CONTINUE_TEXT
             fillerMessage == Message(FreshBase + n, current.uuid, fillerSender,
                                      <<TextBlock(fillerText)>>, <<>>, current.created_at)
         IN  IF needsFiller(current, next)
             THEN fixSameSender(
                      SubSeq(cleaned, 1, i)
                          \o <<fillerMessage,
                               [next EXCEPT !.parent_message_uuid = fillerMessage.uuid]>>
                          \o SubSeq(cleaned, i + 2, Len(cleaned)),
                      i + 2, n + 1)
             ELSE fixSameSender(cleaned, i + 1, n)

\* mutant: step 2 starts at the second message
cleanupMessages_fromSecond(ms, n) == fixSameSender(removeContinuations(ms, 1), 2, n)

cleanupMessages(ms, n) == fixSameSender(removeContinuations(ms, 1), 1, n)

----------------------------------------------------------------------------
(* Chunker specification: the inputs are drawn in Init, one operation is    *)
(* applied to them.                                                        *)

ChunkSenders == {"human", "assistant"}
\* text lengths in characters: empty, 60 tokens, 10,000 tokens, 30,001 tokens
ChunkTextChars == {0, 240, 39999, 120001}
ChunkBudgets == {100, LAST_CHUNK_SIZE, MAIN_TARGET_CHUNK}

\* the i-th message of a linear path: uuid i, parent its predecessor
ChunkMessage(i, sender, chars) ==
    Message(i, i - 1, sender, <<TextBlock(Str("body", chars))>>, <<>>, i)

ChunkInputs ==
    {[i \in 1..Len(f) |-> ChunkMessage(i, f[i][1], f[i][2])] :
        f \in SeqsUpTo(ChunkSenders \X ChunkTextChars, MaxMsgs)}

IdleChunk ==
    /\ messages = <<>> /\ op = "none" /\ maxTokens = 0 /\ greedy = FALSE
    /\ splitIndex = 0 /\ chunks = <<>> /\ out = <<>> /\ nextUuid = 0
IdlePhantom ==
    /\ phantomStore = <<>> /\ chat_messages = <<>> /\ lastRead = <<>>
    /\ forwarded = <<>> /\ timedOut = FALSE
IdleWire == msg = <<>> /\ restored = <<>> /\ completion = <<>> /\ rehomed = <<>>
IdleTree ==
    /\ conversationData = <<>> /\ longest = <<>> /\ branch = <<>>
    /\ current_leaf_message_uuid = ROOT /\ rawImport = <<>>
IdleText == exported = <<>> /\ imported = <<>>
IdleFork ==
    /\ pendingFork = <<>> /\ review = "none" /\ summaryTexts = <<>>
    /\ forkAttachments = <<>> /\ tempConversation = <<>> /\ forkConversation = <<>>
IdleAsync == conv = <<>> /\ sync = <<>> /\ bridge = <<>>
IdleLater == IdleText /\ IdleFork /\ IdleAsync

InitChunk ==
    /\ messages \in ChunkInputs
    /\ op = "none" /\ maxTokens = 0 /\ greedy = FALSE
    /\ splitIndex = 0 /\ chunks = <<>> /\ out = <<>> /\ nextUuid = 0
    /\ IdlePhantom /\ IdleWire /\ IdleTree /\ IdleLater

TakeFromEnd ==
    /\ op = "none"
    /\ \E b \in ChunkBudgets, g \in BOOLEAN :
         /\ maxTokens' = b
         /\ greedy' = g
         /\ splitIndex' = takeMessagesFromEnd(messages, b, g)
    /\ op' = "take"
    /\ UNCHANGED <<messages, chunks, out, nextUuid, phantomVars, wireVars, treeVars, laterVars>>

PartitionIntoChunks ==
    /\ op = "none"
    /\ chunks' = calculateChunkBoundaries(messages)
    /\ op' = "chunk"
    /\ UNCHANGED <<messages, maxTokens, greedy, splitIndex, out, nextUuid,
                   phantomVars, wireVars, treeVars, laterVars>>

NextChunk == TakeFromEnd \/ PartitionIntoChunks

SpecChunk == InitChunk /\ [][NextChunk]_vars

----------------------------------------------------------------------------
(* Chunker claims *)

\* sum of the estimates of the k most recent messages
tailTokens(ms, k) ==
    SeqSum([j \in 1..k |-> estimateTokens(<<ms[Len(ms) + 1 - j]>>)])

MaxOf(S) == CHOOSE x \in S : \A y \in S : y <= x

\* C1: concatenating the chunks returned by calculateChunkBoundaries in order
\* gives back the input list: every message once, at its original position.
C1_ChunksConcatToInput ==
    op = "chunk" => Flatten(chunks) = messages

C1_Witness ==
    /\ op = "chunk"
    /\ Len(chunks) >= 3
    /\ Flatten(chunks) = messages

\* C2: every chunk but the first starts with a human-sender message.
C2_ChunksStartOnHuman ==
    op = "chunk" =>
        \A j \in 2..Len(chunks) : chunks[j] # <<>> /\ chunks[j][1].sender = "human"

\* a boundary was moved over a run of assistant messages
C2_Witness ==
    /\ op = "chunk"
    /\ Len(chunks) >= 2
    /\ \E i \in 1..(Len(messages) - 2) :
           /\ messages[i].sender = "human"
           /\ messages[i + 1].sender = "assistant"
           /\ messages[i + 2].sender = "assistant"
           /\ chunks[Len(chunks)][1].uuid = messages[i].uuid

\* C8: conservative takeFromEnd on a non-empty list returns the largest k in
\* 1..length whose k most recent messages sum to at most the budget, and 1
\* when the most recent message alone exceeds it.
C8_ConservativeLargestFit ==
    (op = "take" /\ ~greedy /\ messages # <<>>) =>
        LET K == {k \in 1..Len(messages) : tailTokens(messages, k) <= maxTokens}
        IN  splitIndex = IF K = {} THEN 1 ELSE MaxOf(K)

\* three messages of 60 tokens, budget 100: 1
C8_Witness ==
    /\ op = "take" /\ ~greedy /\ maxTokens = 100
    /\ Len(messages) = 3
    /\ \A i \in 1..3 : estimateTokens(<<messages[i]>>) = 60
    /\ splitIndex = 1

\* C9: greedy takeFromEnd overshoots the budget by at most the estimate of one
\* of the returned messages.
C9_GreedyOvershootOneMessage ==
    (op = "take" /\ greedy /\ messages # <<>>) =>
        \/ tailTokens(messages, splitIndex) <= maxTokens
        \/ \E j \in 1..splitIndex :
              tailTokens(messages, splitIndex) - maxTokens
                  <= estimateTokens(<<messages[Len(messages) + 1 - j]>>)

----------------------------------------------------------------------------
(* cleanupMessages specification *)

CleanTexts == {Str("body", 100), ACK_TEXT, CONT_TEXT}

CleanMessage(i, sender, text) ==
    Message(i, i - 1, sender, <<TextBlock(text)>>, <<>>, i)

CleanInputs ==
    {[i \in 1..Len(f) |-> CleanMessage(i, f[i][1], f[i][2])] :
        f \in SeqsUpTo(ChunkSenders \X CleanTexts, MaxClean)}

InitClean ==
    /\ messages \in CleanInputs
    /\ op = "none" /\ maxTokens = 0 /\ greedy = FALSE
    /\ splitIndex = 0 /\ chunks = <<>> /\ out = <<>> /\ nextUuid = 0
    /\ IdlePhantom /\ IdleWire /\ IdleTree /\ IdleLater

RepairAlternation ==
    /\ op = "none"
    /\ LET r == cleanupMessages(messages, nextUuid)
       IN  out' = r.list /\ nextUuid' = r.next
    /\ op' = "cleanup"
    /\ UNCHANGED <<messages, maxTokens, greedy, splitIndex, chunks,
                   phantomVars, wireVars, treeVars, laterVars>>

NextClean == RepairAlternation

SpecClean == InitClean /\ [][NextClean]_vars

Alternating(ms) == \A i \in 1..(Len(ms) - 1) : ms[i].sender # ms[i + 1].sender
NoContinuation(ms) == \A i \in 1..Len(ms) : firstText(ms[i]) # CONT_TEXT

\* C7 (as claimed): cleanupMessages is the identity on every list whose adjacent
\* messages have different senders.
C7_IdentityOnAlternating ==
    (op = "cleanup" /\ Alternating(messages)) => out = messages

\* C7 (amended): cleanupMessages is the identity on every alternating list none
\* of whose messages starts with the continuation marker text.
C7_IdentityOnAlternatingNoMarker ==
    (op = "cleanup" /\ Alternating(messages) /\ NoContinuation(messages)) =>
        (out = messages /\ nextUuid = 0)

C7_Witness ==
    /\ op = "cleanup" /\ Alternating(messages) /\ NoContinuation(messages)
    /\ Len(messages) >= 3
    /\ \E i \in 1..Len(messages) : firstText(messages[i]) = ACK_TEXT
    /\ out = messages

\* number of adjacent pairs of ms with the same sender
sameSenderPairs(ms) == Cardinality({i \in 1..(Len(ms) - 1) : ms[i].sender = ms[i + 1].sender})

\* the filler messages of out: those with a uuid drawn by cleanupMessages
fillersOf(ms) == {i \in 1..Len(ms) : ms[i].uuid >= FreshBase}

\* every filler of out sits between two messages of the other sender, has the
\* timestamp and, as parent, the uuid of the message before it, and is the
\* parent of the message after it
fillersChained ==
    \A i \in fillersOf(out) :
        /\ 1 < i /\ i < Len(out) /\ {i - 1, i + 1} \cap fillersOf(out) = {}
        /\ out[i - 1].sender = out[i + 1].sender
        /\ out[i].sender = Other(out[i - 1].sender)
        /\ firstText(out[i]) = (IF out[i].sender = "assistant" THEN ACK_TEXT ELSE CONTINUE_TEXT)
        /\ out[i].created_at = out[i - 1].created_at
        /\ out[i].parent_message_uuid = out[i - 1].uuid
        /\ out[i + 1].parent_message_uuid = out[i].uuid
        /\ \A j \in fillersOf(out) : out[j].uuid = out[i].uuid => j = i

----------------------------------------------------------------------------
(* normalizeOversizedMessages specification *)

NormTexts == {Str("body", 100), Str("body", 80000)}

NormFiles ==
    { <<>>,
      <<ClaudeAttachment(FileName("a", 0), Content(200000, {}))>>,
      <<ClaudeAttachment(FileName("b", 0), Content(130000, {60000, 100000}))>>,
      <<ClaudeAttachment(FileName("c", 0), Content(40000, {10})),
        ClaudeAttachment(FileName("d", 0), Content(30000, {})),
        ClaudeFile(7, FileName("img", 0), "image")>>,
      <<ClaudeAttachment(FileName("e", 0), Content(20000, {}))>> }

NormMessage(i, sender, text, files) ==
    Message(i, i - 1, sender, <<TextBlock(text)>>, files, i)

NormInputs ==
    {[i \in 1..Len(f) |-> NormMessage(i, f[i][1], f[i][2], f[i][3])] :
        f \in SeqsUpTo(ChunkSenders \X NormTexts \X NormFiles, MaxNorm)}

InitNorm ==
    /\ messages \in NormInputs
    /\ op = "none" /\ maxTokens = 0 /\ greedy = FALSE
    /\ splitIndex = 0 /\ chunks = <<>> /\ out = <<>> /\ nextUuid = 0
    /\ IdlePhantom /\ IdleWire /\ IdleTree /\ IdleLater

SplitOversized ==
    /\ op = "none"
    /\ LET r == normalizeOversizedMessages(messages, nextUuid)
       IN  out' = r.list /\ nextUuid' = r.next
    /\ op' = "normalize"
    /\ UNCHANGED <<messages, maxTokens, greedy, splitIndex, chunks,
                   phantomVars, wireVars, treeVars, laterVars>>

\* createFork: the normalized list goes through cleanupMessages before it is
\* stored as the phantom messages of the fork
StoreCleaned ==
    /\ op = "normalize"
    /\ LET r == cleanupMessages(out, nextUuid)
       IN  out' = r.list /\ nextUuid' = r.next
    /\ op' = "stored"
    /\ UNCHANGED <<messages, maxTokens, greedy, splitIndex, chunks,
                   phantomVars, wireVars, treeVars, laterVars>>

NextNorm == SplitOversized \/ StoreCleaned

SpecNorm == InitNorm /\ [][NextNorm]_vars

\* C19: for a linear path, cleanupMessages(normalizeOversizedMessages(...)) as
\* stored by the fork flow is again a linear chain: every message after the
\* first has as parent the uuid of the message immediately before it.  Stated
\* here for paths whose senders alternate.
C19_StoredChainLinear ==
    (op = "stored" /\ Alternating(messages)) =>
        \A i \in 2..Len(out) : out[i].parent_message_uuid = out[i - 1].uuid

\* position in out of the message that kept the uuid of messages[k]
posOf(k) == IF k = 0 THEN 0 ELSE CHOOSE j \in 1..Len(out) : out[j].uuid = messages[k].uuid
\* the messages messages[k] was turned into
segmentOf(k) == SubSeq(out, posOf(k - 1) + 1, posOf(k))

attachmentTokens(m) ==
    LET atts == msgAttachmentsOf(m)
    IN  SeqSum([i \in 1..Len(atts) |-> attTokens(attachmentToApi(atts[i]))])

\* C10: a message whose attachments fall into n >= 2 bins becomes 2n-1 messages
\* alternating original sender / other sender; the last keeps the original id,
\* the others get fresh ids; the parents chain from the original parent; with
\* 50,000 tokens of attachments there are at least 4 messages.
C10_SplitShape ==
    op = "normalize" =>
        /\ \A i, j \in 1..Len(out) : out[i].uuid = out[j].uuid => i = j
        /\ \A k \in 1..Len(messages) :
              LET m == messages[k]
                  n == Len(attachmentChunksOf(m))
                  seg == segmentOf(k)
              IN  (needsSplit(m) /\ n >= 2) =>
                    /\ Len(seg) = 2 * n - 1
                    /\ \A j \in 1..Len(seg) :
                          /\ seg[j].sender = IF j % 2 = 1 THEN m.sender ELSE Other(m.sender)
                          /\ seg[j].uuid = m.uuid <=> j = Len(seg)
                          /\ j < Len(seg) => seg[j].uuid >= FreshBase
                          /\ seg[j].parent_message_uuid =
                                 IF j = 1 THEN m.parent_message_uuid ELSE seg[j - 1].uuid
                    /\ (attachmentTokens(m) >= 50000 => Len(seg) >= 4)

C10_Witness ==
    /\ op = "normalize"
    /\ \E k \in 1..Len(messages) :
          /\ needsSplit(messages[k])
          /\ attachmentTokens(messages[k]) >= 50000
          /\ Len(attachmentChunksOf(messages[k])) = 4
          /\ Len(segmentOf(k)) = 7

\* C21: every sub-attachment produced by splitOversizedAttachment has at most
\* LAST_CHUNK_SIZE * 4 characters wherever the newlines are, so every attachment
\* bin of a split message totals at most LAST_CHUNK_SIZE estimated tokens (the
\* "single attachment still exceeds max chunk size" branch is never taken).
C21_PartsWithinLimit ==
    op = "normalize" =>
        \A k \in 1..Len(messages) :
            needsSplit(messages[k]) =>
                /\ \A i \in 1..Len(processedAttachmentsOf(messages[k])) :
                      processedAttachmentsOf(messages[k])[i].extracted_content.len <= maxChars
                /\ \A j \in 1..Len(segmentOf(k)) :
                      attachmentTokens(segmentOf(k)[j]) <= LAST_CHUNK_SIZE

\* a message was split whose attachment had to be cut into parts
C21_Witness ==
    /\ op = "normalize"
    /\ \E k \in 1..Len(messages) :
          /\ needsSplit(messages[k])
          /\ Len(processedAttachmentsOf(messages[k])) > Len(msgAttachmentsOf(messages[k]))

----------------------------------------------------------------------------
(* Phantom overlay (phantom-messages.js).  A message of the conversation    *)
(* data is the JSON [uuid, parent_message_uuid, sender, index, content].   *)

PHANTOM_MARKER == Str("====PHANTOM_MESSAGE====", 23)
UuidMarker(uuid) == <<[s |-> "====UUID:<uuid>====", n |-> 49, u |-> uuid]>>
NL2 == Str("\n\n", 2)
SEAM_ACK_TEXT == Str("Acknowledged - end of previous conversation.", 44)

Json(uuid, parent, sender, index, content) ==
    [uuid |-> uuid, parent_message_uuid |-> parent, sender |-> sender,
     index |-> index, content |-> content]

\* getPhantomMessages: the stored sequence, or null (None) when the lookup
\* times out or nothing is stored
getPhantomMessages(store, timeout) ==
    IF timeout \/ store = <<>> THEN None ELSE Some(store)

\* mutant: the marker is appended twice
markContent_twice(content) ==
    [i \in 1..Len(content) |->
        IF content[i].text = None THEN content[i]
        ELSE [content[i] EXCEPT !.text =
                 Some(content[i].text[1] \o NL2 \o PHANTOM_MARKER \o NL2 \o PHANTOM_MARKER)]]

\* item.text = item.text + '\n\n' + PHANTOM_MARKER for every item with a text
markContent(content) ==
    [i \in 1..Len(content) |->
        IF content[i].text = None THEN content[i]
        ELSE [content[i] EXCEPT !.text = Some(content[i].text[1] \o NL2 \o PHANTOM_MARKER)]]

\* mutant: the real roots are pointed at the last stored phantom, not at the
\* seam acknowledgment
seamParent_stored(phantomMessages, withAck) ==
    phantomMessages[Len(phantomMessages) - (IF withAck THEN 1 ELSE 0)].uuid

\* lastPhantom.uuid at the re-pointing of the roots
seamParent(phantomMessages, withAck) == phantomMessages[Len(phantomMessages)].uuid

\* injectPhantomMessages(data, phantomMessages); n counts the uuids drawn
injectPhantomMessages(data, phantomMessages, n) ==
    LET marked == [i \in 1..Len(phantomMessages) |->
                     [phantomMessages[i] EXCEPT !.content = markContent(@)]]
        withAck == marked[Len(marked)].sender = "human"
        ackMessage == Json(FreshBase + n, marked[Len(marked)].uuid, "assistant", 0,
                           <<TextBlock(SEAM_ACK_TEXT \o NL2 \o PHANTOM_MARKER)>>)
        all == IF withAck THEN Append(marked, ackMessage) ELSE marked
        lastUuid == seamParent(all, withAck)
        repointed == [i \in 1..Len(data) |->
                        IF data[i].parent_message_uuid = ROOT
                        THEN [data[i] EXCEPT !.parent_message_uuid = lastUuid]
                        ELSE data[i]]
        joined == all \o repointed
    IN  [chat_messages |-> [i \in 1..Len(joined) |-> [joined[i] EXCEPT !.index = i - 1]],
         phantomCount |-> Len(all),
         next |-> IF withAck THEN n + 1 ELSE n]

\* index of the last content item with a text, 0 when there is none
lastTextIndex(content) ==
    LET S == {i \in 1..Len(content) : content[i].text # None}
    IN  IF S = {} THEN 0 ELSE MaxOf(S)

\* injectUUIDMarkers(data)
injectUUIDMarkers(data) ==
    [i \in 1..Len(data) |->
        LET k == lastTextIndex(data[i].content)
        IN  IF data[i].sender # "human" /\ k > 0
            THEN [data[i] EXCEPT !.content[k].text =
                      Some(@[1] \o NL2 \o UuidMarker(data[i].uuid))]
            ELSE data[i]]

\* the completion interceptor: the parent the request is forwarded with
correctedParent(declared, phantomMessages) ==
    IF phantomMessages # None /\ Len(phantomMessages[1]) > 0
       /\ declared = phantomMessages[1][Len(phantomMessages[1])].uuid
    THEN ROOT ELSE declared

\* the remote's appendTurn: a human turn under the given parent and the
\* assistant's reply; a parent the remote does not know is refused
appendTurn(chat, parent) ==
    IF parent # ROOT /\ \A i \in 1..Len(chat) : chat[i].uuid # parent THEN chat
    ELSE chat \o <<Json(Len(chat) + 1, parent, "human", Len(chat),
                        <<TextBlock(Str("turn", 10))>>),
                   Json(Len(chat) + 2, Len(chat) + 1, "assistant", Len(chat) + 1,
                        <<TextBlock(Str("reply", 10))>>)>>

PhantomInputs ==
    {[i \in 1..Len(f) |->
         Json(PhantomBase + i, IF i = 1 THEN ROOT ELSE PhantomBase + i - 1, f[i], i - 1,
              <<TextBlock(Str("old", 10))>>)] :
        f \in SeqsUpTo(ChunkSenders, MaxPhantom)}

RealInputs ==
    { <<>>,
      <<Json(1, ROOT, "human", 0, <<TextBlock(Str("hi", 2))>>)>>,
      <<Json(1, ROOT, "human", 0, <<TextBlock(Str("hi", 2))>>),
        Json(2, 1, "assistant", 1, <<TextBlock(Str("hello", 5))>>)>>,
      <<Json(1, ROOT, "human", 0, <<TextBlock(Str("hi", 2))>>),
        Json(2, ROOT, "human", 1, <<TextBlock(Str("hi!", 3))>>)>> }

InitPhantom ==
    /\ phantomStore \in PhantomInputs
    /\ chat_messages \in RealInputs
    /\ lastRead = [chat_messages |-> <<>>, phantomCount |-> 0, next |-> 0]
    /\ forwarded = <<>>
    /\ timedOut = FALSE
    /\ messages = <<>> /\ op = "none" /\ maxTokens = 0 /\ greedy = FALSE
    /\ splitIndex = 0 /\ chunks = <<>> /\ out = <<>> /\ nextUuid = 0
    /\ IdleWire /\ IdleTree /\ IdleLater

\* the read interceptor: GET .../chat_conversations/<id>?...rendering_mode=messages
ReadConversation ==
    /\ nextUuid < MaxFresh
    /\ \E timeout \in BOOLEAN :
         LET phantomMessages == getPhantomMessages(phantomStore, timeout)
             spliced == IF phantomMessages # None /\ Len(phantomMessages[1]) > 0
                        THEN injectPhantomMessages(chat_messages, phantomMessages[1],
                                                   nextUuid)
                        ELSE [chat_messages |-> chat_messages, phantomCount |-> 0,
                              next |-> nextUuid]
         IN  /\ lastRead' = [spliced EXCEPT
                                !.chat_messages = injectUUIDMarkers(@)]
             /\ nextUuid' = spliced.next
             /\ timedOut' = (timedOut \/ timeout)
    /\ op' = "read"
    /\ UNCHANGED <<phantomStore, chat_messages, forwarded>>
    /\ UNCHANGED <<messages, maxTokens, greedy, splitIndex, chunks, out,
                   wireVars, treeVars, laterVars>>

\* the parents the page can declare for a new turn: ROOT, a real message it
\* was shown (a reply), the shown parent of a real message (an edit or retry),
\* or the last message shown
declarable ==
    LET L == lastRead.chat_messages
        realIdx == (lastRead.phantomCount + 1)..Len(L)
    IN  {ROOT} \cup {L[i].uuid : i \in realIdx}
               \cup {L[i].parent_message_uuid : i \in realIdx}
               \cup (IF L = <<>> THEN {} ELSE {L[Len(L)].uuid})

\* the completion interceptor: POST .../completion
PostCompletion ==
    /\ Len(forwarded) < MaxPosts
    /\ Len(chat_messages) + 2 <= MaxReal
    /\ \E declared \in declarable, timeout \in BOOLEAN :
         LET sent == correctedParent(declared, getPhantomMessages(phantomStore, timeout))
         IN  /\ forwarded' = Append(forwarded, [declared |-> declared, sent |-> sent])
             /\ chat_messages' = appendTurn(chat_messages, sent)
             /\ timedOut' = (timedOut \/ timeout)
    /\ op' = "post"
    /\ UNCHANGED <<phantomStore, lastRead, nextUuid>>
    /\ UNCHANGED <<messages, maxTokens, greedy, splitIndex, chunks, out,
                   wireVars, treeVars, laterVars>>

NextPhantom == ReadConversation \/ PostCompletion

SpecPhantom == InitPhantom /\ [][NextPhantom]_vars

phantomIds(read) == {read.chat_messages[i].uuid : i \in 1..read.phantomCount}

\* C3: no completion request is forwarded with the id of a phantom message of
\* the most recent read result as its parent (the seam acknowledgment
\* included); one declared under the last phantom is forwarded under ROOT.
\* Stated for runs in which no phantom lookup timed out.
C3_NoPhantomParentForwarded ==
    (op = "post" /\ ~timedOut /\ lastRead.phantomCount > 0) =>
        LET f == forwarded[Len(forwarded)]
        IN  /\ f.sent \notin phantomIds(lastRead)
            /\ (f.declared = lastRead.chat_messages[lastRead.phantomCount].uuid
                   => f.sent = ROOT)

\* C4: with a non-empty phantom sequence retrieved, the read returns the
\* phantom messages, then the real messages in their order; the real roots
\* point at the last spliced phantom, every other parent is unchanged, and
\* the index values are 0..n-1.
C4_OverlayReadShape ==
    (op = "read" /\ lastRead.phantomCount > 0) =>
        LET L == lastRead.chat_messages
            np == lastRead.phantomCount
            P == phantomStore
            R == chat_messages
        IN  /\ np = Len(P) + (IF P[Len(P)].sender = "human" THEN 1 ELSE 0)
            /\ Len(L) = np + Len(R)
            /\ \A i \in 1..Len(P) :
                  /\ L[i].uuid = P[i].uuid
                  /\ L[i].sender = P[i].sender
                  /\ L[i].parent_message_uuid = P[i].parent_message_uuid
            /\ \A j \in 1..Len(R) :
                  /\ L[np + j].uuid = R[j].uuid
                  /\ L[np + j].sender = R[j].sender
                  /\ L[np + j].parent_message_uuid =
                        IF R[j].parent_message_uuid = ROOT THEN L[np].uuid
                        ELSE R[j].parent_message_uuid
            /\ \A i \in 1..Len(L) : L[i].index = i - 1

\* two phantoms (human, assistant) in front of one real message: the real
\* message hangs under the phantom assistant message, indices 0, 1, 2
C4_Witness ==
    /\ op = "read"
    /\ Len(phantomStore) = 2
    /\ phantomStore[1].sender = "human" /\ phantomStore[2].sender = "assistant"
    /\ Len(chat_messages) = 1
    /\ Len(lastRead.chat_messages) = 3
    /\ lastRead.chat_messages[3].parent_message_uuid = phantomStore[2].uuid
    /\ \A i \in 1..3 : lastRead.chat_messages[i].index = i - 1

----------------------------------------------------------------------------
(* Wire format of a message (claude-api: ClaudeMessage).  The JSON of a file *)
(* carries the keys its toApiFormat writes; an absent key is None.           *)

ApiFile(uuid, name, kind, path, extracted, size, type) ==
    [file_uuid |-> uuid, file_name |-> name, file_kind |-> kind, path |-> path,
     extracted_content |-> extracted, file_size |-> size, file_type |-> type]

\* toApiFormat() of the three classes
toApiFormat(f) ==
    IF f.cls = "ClaudeAttachment"
    THEN ApiFile(None, f.file_name, None, None, f.extracted_content,
                 f.file_size, f.file_type)
    ELSE ApiFile(f.file_uuid, f.file_name, f.file_kind, f.path, None, None, None)

\* mutant: a text of exactly ATTACHMENT_CHAR_LIMIT characters is not inlined
shouldInline_strict(f) ==
    /\ f.extracted_content # None
    /\ (f.force_attachment_mode \/ f.extracted_content[1].len < ATTACHMENT_CHAR_LIMIT)

\* _getFilesJSON: whether a sandbox file is inlined as an attachment
shouldInline(f) ==
    /\ f.extracted_content # None
    /\ (f.force_attachment_mode \/ f.extracted_content[1].len <= ATTACHMENT_CHAR_LIMIT)

inlinedAttachment(f) ==
    ApiFile(None, f.file_name, None, None, f.extracted_content,
            Some(f.extracted_content[1].len), Some("text/plain"))

isInlined(f) == f.cls = "ClaudeCodeExecutionFile" /\ shouldInline(f)

_getFilesJSON(files) ==
    LET asAttachment == SelectSeq(files,
                            LAMBDA f : f.cls = "ClaudeAttachment" \/ isInlined(f))
        asFile == SelectSeq(files,
                            LAMBDA f : f.cls # "ClaudeAttachment" /\ ~isInlined(f))
        images == SelectSeq(asFile, LAMBDA f : f.file_kind = Some("image"))
    IN  [files_v2 |-> [i \in 1..Len(asFile) |-> toApiFormat(asFile[i])],
         files_completion |-> [i \in 1..Len(asFile) |-> asFile[i].file_uuid],
         files_history |-> [i \in 1..Len(images) |-> toApiFormat(images[i])],
         attachments |-> [i \in 1..Len(asAttachment) |->
                            IF asAttachment[i].cls = "ClaudeAttachment"
                            THEN toApiFormat(asAttachment[i])
                            ELSE inlinedAttachment(asAttachment[i])]]

toHistoryJSON(m) ==
    LET j == _getFilesJSON(m.files)
    IN  [uuid |-> m.uuid, text |-> textOf(m), content |-> m.content,
         sender |-> m.sender, index |-> m.index, created_at |-> m.created_at,
         attachments |-> j.attachments, files |-> j.files_history,
         files_v2 |-> j.files_v2, parent_message_uuid |-> m.parent_message_uuid]

\* apiData.extracted_content || null
orNull(extracted) ==
    IF extracted # None /\ extracted[1].len > 0 THEN extracted ELSE None

\* mutant: the extracted content is looked at before the path
parseFileFromAPI_contentFirst(apiData) ==
    IF apiData.extracted_content # None
    THEN [cls |-> "ClaudeAttachment", file_uuid |-> None,
          file_name |-> apiData.file_name, file_kind |-> None, path |-> None,
          extracted_content |-> apiData.extracted_content,
          force_attachment_mode |-> FALSE,
          file_size |-> apiData.file_size, file_type |-> apiData.file_type]
    ELSE IF apiData.path # None
    THEN [cls |-> "ClaudeCodeExecutionFile", file_uuid |-> apiData.file_uuid,
          file_name |-> apiData.file_name, file_kind |-> apiData.file_kind,
          path |-> apiData.path, extracted_content |-> None,
          force_attachment_mode |-> FALSE, file_size |-> None, file_type |-> None]
    ELSE IF apiData.file_uuid # None
    THEN [cls |-> "ClaudeFile", file_uuid |-> apiData.file_uuid,
          file_name |-> apiData.file_name, file_kind |-> apiData.file_kind,
          path |-> None, extracted_content |-> None,
          force_attachment_mode |-> FALSE, file_size |-> None, file_type |-> None]
    ELSE [cls |-> "Error: Unknown file format"]

\* parseFileFromAPI: the class is chosen by the keys present
parseFileFromAPI(apiData) ==
    IF apiData.path # None
    THEN [cls |-> "ClaudeCodeExecutionFile", file_uuid |-> apiData.file_uuid,
          file_name |-> apiData.file_name, file_kind |-> apiData.file_kind,
          path |-> apiData.path,
          extracted_content |-> orNull(apiData.extracted_content),
          force_attachment_mode |-> FALSE, file_size |-> None, file_type |-> None]
    ELSE IF apiData.extracted_content # None
    THEN [cls |-> "ClaudeAttachment", file_uuid |-> None,
          file_name |-> apiData.file_name, file_kind |-> None, path |-> None,
          extracted_content |-> apiData.extracted_content,
          force_attachment_mode |-> FALSE,
          file_size |-> apiData.file_size, file_type |-> apiData.file_type]
    ELSE IF apiData.file_uuid # None
    THEN [cls |-> "ClaudeFile", file_uuid |-> apiData.file_uuid,
          file_name |-> apiData.file_name, file_kind |-> apiData.file_kind,
          path |-> None, extracted_content |-> None,
          force_attachment_mode |-> FALSE, file_size |-> None, file_type |-> None]
    ELSE [cls |-> "Error: Unknown file format"]

\* new ClaudeMessage(conversation, json): files_v2 first, then attachments
_parseFromHistory(json) ==
    [uuid |-> json.uuid, parent_message_uuid |-> json.parent_message_uuid,
     sender |-> json.sender, index |-> json.index, content |-> json.content,
     created_at |-> json.created_at,
     files |-> [i \in 1..Len(json.files_v2) |-> parseFileFromAPI(json.files_v2[i])]
               \o [i \in 1..Len(json.attachments) |->
                      parseFileFromAPI(json.attachments[i])]]

fromHistoryJSON(json) == _parseFromHistory(json)

WireContents ==
    { <<>>,
      <<TextBlock(Str("hello", 5))>>,
      <<TextBlock(Str("one", 3)), TextBlock(Str("two", 3))>>,
      <<TextBlock(Str("see", 3)), ToolBlock("tool_use"), ToolBlock("tool_result")>> }

WireFiles ==
    { ClaudeAttachment("notes.txt", Content(10, {})),
      ClaudeFile(21, "photo.png", "image"),
      ClaudeFile(22, "paper.pdf", "document"),
      ClaudeCodeExecutionFile(31, "data.bin", "document", "/mnt/user-data/uploads/data.bin",
                              None, FALSE),
      ClaudeCodeExecutionFile(32, "short.txt", "document", "/mnt/user-data/uploads/short.txt",
                              Some(Content(ATTACHMENT_CHAR_LIMIT, {})), FALSE),
      ClaudeCodeExecutionFile(33, "long.txt", "document", "/mnt/user-data/uploads/long.txt",
                              Some(Content(ATTACHMENT_CHAR_LIMIT + 1, {})), FALSE),
      ClaudeCodeExecutionFile(34, "forced.txt", "document", "/mnt/user-data/uploads/forced.txt",
                              Some(Content(ATTACHMENT_CHAR_LIMIT + 1, {})), TRUE),
      ClaudeCodeExecutionFile(35, "plot.png", "image", "/mnt/user-data/outputs/plot.png",
                              None, TRUE) }

WireInputs ==
    {[Message(1, ROOT, sender, content, files, 1) EXCEPT !.index = 3] :
        sender \in ChunkSenders, content \in WireContents,
        files \in SeqsUpTo(WireFiles, MaxFiles)}

InitWire ==
    /\ msg \in WireInputs
    /\ restored = <<>>
    /\ completion = [requests |-> <<>>, error |-> None]
    /\ rehomed = <<>>
    /\ messages = <<>> /\ op = "none" /\ maxTokens = 0 /\ greedy = FALSE
    /\ splitIndex = 0 /\ chunks = <<>> /\ out = <<>> /\ nextUuid = 0
    /\ IdlePhantom /\ IdleTree /\ IdleLater

\* ClaudeMessage.fromHistoryJSON(conversation, msg.toHistoryJSON())
RoundTrip ==
    /\ op = "none"
    /\ restored' = fromHistoryJSON(toHistoryJSON(msg))
    /\ op' = "roundtrip"
    /\ UNCHANGED <<msg, completion, rehomed, messages, maxTokens, greedy, splitIndex, chunks, out,
                   nextUuid, phantomVars, treeVars, laterVars>>

\* mutant: several text blocks are joined into the prompt
toCompletionJSON_joined(m) ==
    LET textBlocks == SelectSeq(m.content, LAMBDA c : c.type = "text")
        j == _getFilesJSON(m.files)
    IN  IF m.sender # "human"
        THEN [ok |-> FALSE, error |-> "Cannot send non-human message as completion"]
        ELSE IF Len(textBlocks) = 0
        THEN [ok |-> FALSE, error |-> "Message has no text content"]
        ELSE [ok |-> TRUE, error |-> "", prompt |-> textOf(m),
              parent_message_uuid |-> m.parent_message_uuid,
              attachments |-> j.attachments, files |-> j.files_completion]

\* toCompletionJSON(): the request body, or ok = FALSE for a throw
toCompletionJSON(m) ==
    LET textBlocks == SelectSeq(m.content, LAMBDA c : c.type = "text")
        j == _getFilesJSON(m.files)
    IN  IF m.sender # "human"
        THEN [ok |-> FALSE, error |-> "Cannot send non-human message as completion"]
        ELSE IF Len(textBlocks) = 0
        THEN [ok |-> FALSE, error |-> "Message has no text content"]
        ELSE IF Len(textBlocks) > 1
        THEN [ok |-> FALSE,
              error |-> "Cannot send message with multiple text blocks as completion"]
        ELSE [ok |-> TRUE, error |-> "", prompt |-> textBlocks[1].text[1],
              parent_message_uuid |-> m.parent_message_uuid,
              attachments |-> j.attachments, files |-> j.files_completion]

\* conversation.sendMessageAndWaitForResponse(msg) up to the end of the
\* completion stream: the body is built first, then posted; the remote may
\* answer with an error status
SendMessage ==
    /\ op = "none"
    /\ LET requestBody == toCompletionJSON(msg)
       IN  IF ~requestBody.ok
           THEN /\ completion' = [requests |-> <<>>, error |-> Some(requestBody.error)]
                /\ op' = "rejected"
           ELSE \E responseOk \in BOOLEAN :
                   /\ completion' =
                         [requests |-> <<requestBody>>,
                          error |-> IF responseOk THEN None
                                    ELSE Some("Failed to send message")]
                   /\ op' = "sent"
    /\ UNCHANGED <<msg, restored, rehomed, messages, maxTokens, greedy, splitIndex, chunks,
                   out, nextUuid, phantomVars, treeVars, laterVars>>

\* what the remote returns for an upload: a sandbox file from
\* uploadToCodeExecution; from ClaudeFile.upload a hosted file for an image or
\* a PDF and a converted attachment for any other document
uploaded(fileName, codeExecutionEnabled) ==
    IF codeExecutionEnabled
    THEN ClaudeCodeExecutionFile(90, fileName, "document", <<"/mnt/user-data/uploads", fileName>>,
                                 None, FALSE)
    ELSE IF fileName \in {"photo.png", "plot.png", "paper.pdf"}
    THEN ClaudeFile(90, fileName, IF fileName = "paper.pdf" THEN "document" ELSE "image")
    ELSE ClaudeAttachment(fileName, Content(1, {}))

\* conversation.getData(): a fetch unless the data is cached
getDataRequests(cached) == IF cached THEN <<>> ELSE <<"getData">>

\* mutant: an attachment is uploaded also when code execution is off
reuploadFile_always(file, codeExecutionEnabled, cached) ==
    [result |-> uploaded(file.file_name, codeExecutionEnabled), same |-> FALSE,
     requests |-> getDataRequests(cached)
                  \o (IF file.cls = "ClaudeAttachment" THEN <<>> ELSE <<"download">>)
                  \o <<"upload">>]

\* reuploadFile(file, conversation): the file returned, whether it is the
\* object passed in, and the requests made
reuploadFile(file, codeExecutionEnabled, cached) ==
    IF file.cls = "ClaudeAttachment" /\ ~codeExecutionEnabled
    THEN [result |-> file, same |-> TRUE, requests |-> getDataRequests(cached)]
    ELSE [result |-> uploaded(file.file_name, codeExecutionEnabled), same |-> FALSE,
          requests |-> getDataRequests(cached)
                       \o (IF file.cls = "ClaudeAttachment" THEN <<>> ELSE <<"download">>)
                       \o <<"upload">>]

\* ClaudeMessage.addFile(input, null, forceAttachmentMode) for a file object
addFile(input, forceAttachmentMode, codeExecutionEnabled, cached) ==
    IF input.cls = "ClaudeAttachment" /\ ~codeExecutionEnabled
    THEN [result |-> input, same |-> TRUE, requests |-> getDataRequests(cached)]
    ELSE LET extractedContent ==
                 IF input.cls = "ClaudeFile" THEN None ELSE input.extracted_content
             up == uploaded(input.file_name, codeExecutionEnabled)
         IN  [result |->
                 IF codeExecutionEnabled
                 THEN [up EXCEPT !.extracted_content =
                                    IF extractedContent # None THEN extractedContent ELSE @,
                                 !.force_attachment_mode = forceAttachmentMode]
                 ELSE up,
              same |-> FALSE,
              requests |-> getDataRequests(cached)
                           \o (IF input.cls = "ClaudeAttachment" THEN <<>>
                               ELSE <<"download">>)
                           \o <<"upload">>]

\* a file of the message is re-homed into a target conversation, directly or
\* through a message of the target
RehomeFile ==
    /\ op = "none"
    /\ \E file \in {msg.files[k] : k \in 1..Len(msg.files)}, codeExecutionEnabled \in BOOLEAN, cached \in BOOLEAN,
          via \in {"reuploadFile", "addFile"}, forceAttachmentMode \in BOOLEAN :
          LET r == IF via = "reuploadFile"
                   THEN reuploadFile(file, codeExecutionEnabled, cached)
                   ELSE addFile(file, forceAttachmentMode, codeExecutionEnabled, cached)
          IN  rehomed' = [via |-> via, source |-> file, sourceAfter |-> file,
                          codeExecutionEnabled |-> codeExecutionEnabled,
                          forceAttachmentMode |-> forceAttachmentMode,
                          result |-> r.result, same |-> r.same, requests |-> r.requests]
    /\ op' = "rehome"
    /\ UNCHANGED <<msg, restored, completion, messages, maxTokens, greedy, splitIndex,
                   chunks, out, nextUuid, phantomVars, treeVars, laterVars>>

NextWire == RoundTrip \/ SendMessage \/ RehomeFile

SpecWire == InitWire /\ [][NextWire]_vars

\* what a file is after the round trip
restoredFile(f) ==
    IF f.cls = "ClaudeCodeExecutionFile"
    THEN IF f.extracted_content # None
            /\ (f.force_attachment_mode
                \/ f.extracted_content[1].len <= ATTACHMENT_CHAR_LIMIT)
         THEN [ClaudeAttachment(f.file_name, f.extracted_content[1])
                  EXCEPT !.file_size = Some(f.extracted_content[1].len)]
         ELSE [f EXCEPT !.extracted_content = None, !.force_attachment_mode = FALSE]
    ELSE f

\* a file of a message: its variant, its id and its name
fileKey(f) == <<f.cls, f.file_uuid, f.file_name>>

\* the bag of the files of a list
FileBag(files) ==
    [k \in {fileKey(files[i]) : i \in 1..Len(files)} |->
        Cardinality({i \in 1..Len(files) : fileKey(files[i]) = k})]

\* C5 as stated: the round trip keeps id, text, content blocks and the files,
\* each file in its variant.
C5_RoundTripKeepsFiles ==
    op = "roundtrip" =>
        /\ restored.uuid = msg.uuid
        /\ textOf(restored) = textOf(msg)
        /\ restored.content = msg.content
        /\ FileBag(restored.files) = FileBag(msg.files)

\* C5, amended: the round trip keeps id, text and content blocks and the
\* number of files.  A hosted file and an inline attachment come back as they
\* were.  A sandbox file comes back as a sandbox file without extracted text,
\* unless it carries extracted text that is forced inline or has at most
\* ATTACHMENT_CHAR_LIMIT characters: then it comes back as an inline
\* attachment with that text.  Files of files_v2 come first.
C5_RoundTripInlinesSandboxText ==
    op = "roundtrip" =>
        LET expected == [i \in 1..Len(msg.files) |-> restoredFile(msg.files[i])]
        IN  /\ restored.uuid = msg.uuid
            /\ textOf(restored) = textOf(msg)
            /\ restored.content = msg.content
            /\ restored.files =
                  SelectSeq(expected, LAMBDA f : f.cls # "ClaudeAttachment")
                  \o SelectSeq(expected, LAMBDA f : f.cls = "ClaudeAttachment")

\* a message with a small sandbox text file in front of a hosted image has
\* been round-tripped: the image first, then the text as an attachment
C5_Witness ==
    /\ op = "roundtrip"
    /\ Len(msg.files) = 2
    /\ msg.files[1].cls = "ClaudeCodeExecutionFile"
    /\ msg.files[1].extracted_content = Some(Content(ATTACHMENT_CHAR_LIMIT, {}))
    /\ msg.files[2].cls = "ClaudeFile"
    /\ restored.files[1] = msg.files[2]
    /\ restored.files[2].cls = "ClaudeAttachment"
    /\ Len(msg.content) = 2

\* C17: toCompletionJSON fails exactly when the sender is not human, the
\* message has no text block, or it has more than one; sendMessageAndWaitForResponse
\* then sends no request, and otherwise the prompt is the text of the single
\* text block.
C17_CompletionNeedsOneText ==
    op \in {"rejected", "sent"} =>
        LET textBlocks == SelectSeq(msg.content, LAMBDA c : c.type = "text")
            invalid == msg.sender # "human" \/ Len(textBlocks) # 1
        IN  /\ (op = "rejected") = invalid
            /\ invalid => (completion.requests = <<>> /\ completion.error # None)
            /\ ~invalid => /\ Len(completion.requests) = 1
                           /\ completion.requests[1].prompt = textBlocks[1].text[1]

\* a human message with two text blocks was refused and nothing was posted
C17_Witness ==
    /\ op = "rejected"
    /\ msg.sender = "human"
    /\ Len(SelectSeq(msg.content, LAMBDA c : c.type = "text")) = 2
    /\ completion.requests = <<>>

----------------------------------------------------------------------------
(* Tree queries: ClaudeConversation.findLongestLeaf and the leaf-to-root     *)
(* walk of parseRawClaudeJson.  A message of the tree is the JSON            *)
(* [uuid, parent_message_uuid, created_at].                                  *)

TreeMessage(uuid, parent, created_at) ==
    [uuid |-> uuid, parent_message_uuid |-> parent, created_at |-> created_at]

\* messageMap.get(uuid): the message in a one-element sequence, or None
messageMapGet(ms, uuid) ==
    LET found == SelectSeq(ms, LAMBDA m : m.uuid = uuid)
    IN  IF found = <<>> THEN None ELSE Some(found[Len(found)])

childrenOf(ms, startMessageId) ==
    SelectSeq(ms, LAMBDA m : m.parent_message_uuid = startMessageId)

\* mutant: the step from a message to its child is not counted
totalDepthOf_same(result) == result.depth

\* const totalDepth = result.depth + 1
totalDepthOf(result) == result.depth + 1

RECURSIVE longestOver_older(_, _, _)
\* mutant: on equal depth the older leaf is kept
longestOver_older(results, i, longestPath) ==
    IF i > Len(results) THEN longestPath
    ELSE LET result == results[i]
             totalDepth == totalDepthOf(result)
         IN  IF result.threw THEN result
             ELSE IF totalDepth > longestPath.depth
                     \/ (totalDepth = longestPath.depth
                         /\ result.timestamp < longestPath.timestamp)
             THEN longestOver_older(results, i + 1,
                      [leafId |-> result.leafId, depth |-> totalDepth,
                       timestamp |-> result.timestamp, threw |-> FALSE])
             ELSE longestOver_older(results, i + 1, longestPath)

\* the loop over the children: keep the deeper path, on equal depth the newer
RECURSIVE longestOver(_, _, _)
longestOver(results, i, longestPath) ==
    IF i > Len(results) THEN longestPath
    ELSE LET result == results[i]
             totalDepth == totalDepthOf(result)
         IN  IF result.threw THEN result
             ELSE IF totalDepth > longestPath.depth
                     \/ (totalDepth = longestPath.depth
                         /\ result.timestamp > longestPath.timestamp)
             THEN longestOver(results, i + 1,
                      [leafId |-> result.leafId, depth |-> totalDepth,
                       timestamp |-> result.timestamp, threw |-> FALSE])
             ELSE longestOver(results, i + 1, longestPath)

\* findLongestLeaf(startMessageId); threw marks the TypeError raised when the
\* start has no children and is not a message of the map
RECURSIVE findLongestLeaf(_, _)
findLongestLeaf(ms, startMessageId) ==
    LET children == childrenOf(ms, startMessageId)
    IN  IF children = <<>>
        THEN LET message == messageMapGet(ms, startMessageId)
             IN  IF message = None
                 THEN [leafId |-> startMessageId, depth |-> 0, timestamp |-> 0,
                       threw |-> TRUE]
                 ELSE [leafId |-> startMessageId, depth |-> 0,
                       timestamp |-> message[1].created_at, threw |-> FALSE]
        ELSE longestOver([i \in 1..Len(children) |->
                             findLongestLeaf(ms, children[i].uuid)],
                         1, [leafId |-> ROOT, depth |-> -1, timestamp |-> 0,
                             threw |-> FALSE])

\* the walk backward from a leaf: messages only, root first
RECURSIVE walkToRoot(_, _, _)
walkToRoot(ms, current, acc) ==
    IF current = None THEN acc
    ELSE LET parentId == current[1].parent_message_uuid
         IN  IF parentId = ROOT THEN <<current[1]>> \o acc
             ELSE walkToRoot(ms, messageMapGet(ms, parentId), <<current[1]>> \o acc)

\* whether following parent links from message i reaches ROOT
RECURSIVE reachesRoot(_, _, _)
reachesRoot(parents, i, fuel) ==
    IF i = ROOT THEN TRUE
    ELSE IF fuel = 0 THEN FALSE
    ELSE reachesRoot(parents, parents[i], fuel - 1)

\* the created_at values of the messages of a tree
Stamps == {1, 2}

\* the forests over the messages 1..n: every message reaches ROOT
InitTree ==
    /\ \E n \in 0..MaxTree :
         \E parents \in [1..n -> 0..n], stamps \in [1..n -> Stamps] :
            /\ \A i \in 1..n : reachesRoot(parents, i, n)
            /\ conversationData =
                  [i \in 1..n |-> TreeMessage(i, parents[i], stamps[i])]
    /\ longest = <<>> /\ branch = <<>>
    /\ current_leaf_message_uuid = ROOT /\ rawImport = <<>>
    /\ messages = <<>> /\ op = "none" /\ maxTokens = 0 /\ greedy = FALSE
    /\ splitIndex = 0 /\ chunks = <<>> /\ out = <<>> /\ nextUuid = 0
    /\ IdlePhantom /\ IdleWire /\ IdleLater

\* conversation.findLongestLeaf(ROOT)
FindLongestLeaf ==
    /\ op = "none"
    /\ longest' = findLongestLeaf(conversationData, ROOT)
    /\ op' = "longest"
    /\ UNCHANGED <<conversationData, branch, current_leaf_message_uuid, rawImport>>
    /\ UNCHANGED <<messages, maxTokens, greedy, splitIndex, chunks, out, nextUuid,
                   phantomVars, wireVars, laterVars>>

\* the walk of parent links from the leaf found
WalkBranch ==
    /\ op = "longest" /\ ~longest.threw
    /\ branch' = walkToRoot(conversationData,
                            messageMapGet(conversationData, longest.leafId), <<>>)
    /\ op' = "branch"
    /\ UNCHANGED <<conversationData, longest, current_leaf_message_uuid, rawImport>>
    /\ UNCHANGED <<messages, maxTokens, greedy, splitIndex, chunks, out, nextUuid,
                   phantomVars, wireVars, laterVars>>

NextTree == FindLongestLeaf \/ WalkBranch

SpecTree == InitTree /\ [][NextTree]_vars

\* C6 as stated: the path from the deepest leaf back to ROOT has exactly
\* depth + 1 messages.
C6_PathIsDepthPlusOne ==
    op = "branch" => Len(branch) = longest.depth + 1

\* C6, amended: on a tree with at least one message the path from the deepest
\* leaf back to ROOT has exactly depth messages, the depth counting the step
\* from the ROOT sentinel to the first message; on an empty message set
\* findLongestLeaf(ROOT) raises instead of returning.
C6_PathIsDepth ==
    /\ (op # "none" /\ conversationData = <<>>) => longest.threw
    /\ (op # "none" /\ conversationData # <<>>) => ~longest.threw /\ longest.depth >= 1
    /\ op = "branch" =>
          /\ Len(branch) = longest.depth
          /\ branch[1].parent_message_uuid = ROOT
          /\ branch[Len(branch)].uuid = longest.leafId
          /\ \A i \in 2..Len(branch) : branch[i].parent_message_uuid = branch[i-1].uuid

\* a tree of four messages that forks below its second message has been walked
C6_Witness ==
    /\ op = "branch"
    /\ Len(conversationData) = 4
    /\ Len(childrenOf(conversationData, ROOT)) = 1
    /\ \E i \in 1..4 : Len(childrenOf(conversationData, i)) = 2
    /\ longest.depth = 3
    /\ Len(branch) = 3

----------------------------------------------------------------------------
(* findLongestLeaf started at any id of the tree *)

\* conversation.findLongestLeaf(startMessageId) for ROOT or a message of the set
FindLongestLeafFrom ==
    /\ op = "none" /\ conversationData # <<>>
    /\ \E startMessageId \in 0..Len(conversationData) :
          longest' = [start |-> startMessageId,
                      result |-> findLongestLeaf(conversationData, startMessageId)]
    /\ op' = "longestFrom"
    /\ UNCHANGED <<conversationData, branch, current_leaf_message_uuid, rawImport>>
    /\ UNCHANGED <<messages, maxTokens, greedy, splitIndex, chunks, out, nextUuid,
                   phantomVars, wireVars, laterVars>>

NextLeaf == FindLongestLeafFrom

SpecLeaf == InitTree /\ [][NextLeaf]_vars

\* the number of parent links from message id up to start, -1 when start is
\* not reached
RECURSIVE linksUp(_, _, _, _)
linksUp(ms, id, start, fuel) ==
    IF id = start THEN 0
    ELSE IF id = ROOT \/ fuel = 0 THEN -1
    ELSE LET above == linksUp(ms, ms[id].parent_message_uuid, start, fuel - 1)
         IN  IF above = -1 THEN -1 ELSE above + 1

\* the leaves among start and its descendants
leavesBelow(ms, start) ==
    {id \in 1..Len(ms) : /\ linksUp(ms, id, start, Len(ms)) >= 0
                         /\ childrenOf(ms, id) = <<>>}

\* C32: findLongestLeaf(start) returns a leaf of maximum depth below start,
\* among the leaves of that depth one with the largest created_at, and its
\* depth and timestamp; a start without children is returned with depth 0.
C32_DeepestNewestLeaf ==
    op = "longestFrom" =>
        LET ms == conversationData
            start == longest.start
            r == longest.result
            leaves == leavesBelow(ms, start)
            depth(id) == linksUp(ms, id, start, Len(ms))
        IN  /\ ~r.threw
            /\ r.leafId \in leaves
            /\ r.depth = depth(r.leafId)
            /\ r.timestamp = ms[r.leafId].created_at
            /\ \A id \in leaves :
                   \/ depth(id) < r.depth
                   \/ depth(id) = r.depth /\ ms[id].created_at <= r.timestamp
            /\ childrenOf(ms, start) = <<>> => r.leafId = start /\ r.depth = 0

\* two leaves two links below the start: the one listed first is older, the
\* newer one is returned
C32_Witness ==
    /\ op = "longestFrom"
    /\ Len(conversationData) = 4
    /\ longest.result.depth = 2
    /\ \E x, y \in leavesBelow(conversationData, longest.start) :
          /\ x < y
          /\ linksUp(conversationData, x, longest.start, 4) = 2
          /\ linksUp(conversationData, y, longest.start, 4) = 2
          /\ conversationData[x].created_at = 1
          /\ conversationData[y].created_at = 2
          /\ longest.result.leafId = y

----------------------------------------------------------------------------
(* Tagged-text export and import (exporter.js).  The file is a sequence of  *)
(* lines.  A line is [s, tag, ctype, ts, j]: tag says whether its            *)
(* characters match TAG_REGEX, s is then the marker ("User", "Assistant",    *)
(* "content", "files_v2", "attachments"), ctype the part after "content-"    *)
(* and ts the timestamp; a line written by JSON.stringify has s = "{json}"   *)
(* for an object and "[json]" for an array, and j holds its value.  A text   *)
(* of this format is a non-empty sequence of lines (the empty string is one  *)
(* empty line).                                                              *)

Line(s, tag, ctype, ts, j) == [s |-> s, tag |-> tag, ctype |-> ctype, ts |-> ts, j |-> j]
TextLine(s) == Line(s, FALSE, "", None, None)
TagLine(marker, ctype, ts) == Line(marker, TRUE, ctype, ts, None)

\* formatTxtExport: the header, then per message its role line, its content
\* blocks (a text as it is, any other block as its JSON) and its files; each
\* "\n\n" leaves an empty line behind, and the last line is the empty string
\* after the final "\n"
formatTxtExport(ms) ==
    LET exportBlock(content) ==
            IF content.type = "text"
            THEN <<TagLine("content", "text", None)>> \o content.text[1]
                 \o <<TextLine("")>>
            ELSE <<TagLine("content", content.type, None),
                   Line("{json}", FALSE, "", None, Some(content)), TextLine("")>>
        exportList(tag, files) ==
            IF Len(files) > 0
            THEN <<TagLine(tag, "", None),
                   Line("[json]", FALSE, "", None,
                        Some([i \in 1..Len(files) |-> toApiFormat(files[i])])),
                   TextLine("")>>
            ELSE <<>>
        timestamp(message) ==
            IF message.created_at = None \/ message.created_at = Some(0)
            THEN None ELSE message.created_at
        exportMessage(message) ==
            <<TagLine(IF message.sender = "human" THEN "User" ELSE "Assistant", "",
                      timestamp(message))>>
            \o Flatten([i \in 1..Len(message.content) |-> exportBlock(message.content[i])])
            \o exportList("files_v2",
                          SelectSeq(message.files, LAMBDA f : f.cls # "ClaudeAttachment"))
            \o exportList("attachments",
                          SelectSeq(message.files, LAMBDA f : f.cls = "ClaudeAttachment"))
    IN  <<TextLine("Settings: {}"), TextLine("Title: name"), TextLine("Date: date"),
          TextLine("")>>
        \o Flatten([i \in 1..Len(ms) |-> exportMessage(ms[i])])
        \o <<TextLine("")>>

\* parseAndValidateText(text): [ok, error, messages, warnings], ok = FALSE
\* for a throw
parseAndValidateText(lines) ==
    LET \* the buffer holds the empty string
        bufferEmpty(textBuffer) == textBuffer = <<>> \/ textBuffer = <<TextLine("")>>
        \* String.prototype.trim: blank lines at either end go
        RECURSIVE trim(_)
        trim(ls) ==
            IF ls = <<>> THEN <<TextLine("")>>
            ELSE IF ls[1] = TextLine("") THEN trim(Tail(ls))
            ELSE IF ls[Len(ls)] = TextLine("") THEN trim(SubSeq(ls, 1, Len(ls) - 1))
            ELSE ls
        \* JSON.parse: the value, or None for a SyntaxError
        jsonParse(ls) == IF Len(ls) = 1 /\ ls[1].j # None THEN ls[1].j ELSE None
        flushTextBuffer(st) ==
            IF bufferEmpty(st.textBuffer) \/ st.currentTag = None THEN st
            ELSE LET trimmed == trim(st.textBuffer)
                     tag == st.currentTag[1]
                     parsed == jsonParse(trimmed)
                     raw == st.currentRaw[1]
                     cleared == [st EXCEPT !.textBuffer = <<>>]
                 IN  IF tag.s = "content" /\ tag.ctype = "text"
                     THEN [cleared EXCEPT !.currentRaw =
                              Some([raw EXCEPT !.content =
                                       Append(@, [type |-> "text", text |-> Some(trimmed)])])]
                     ELSE IF parsed = None
                     THEN [cleared EXCEPT !.warnings = @ + 1]
                     ELSE IF tag.s = "content"
                     THEN [cleared EXCEPT !.currentRaw =
                              Some([raw EXCEPT !.content = Append(@, parsed[1])])]
                     ELSE IF tag.s = "files_v2"
                     THEN [cleared EXCEPT !.currentRaw =
                              Some([raw EXCEPT !.files_v2 = parsed[1]])]
                     ELSE IF tag.s = "attachments"
                     THEN [cleared EXCEPT !.currentRaw =
                              Some([raw EXCEPT !.attachments = parsed[1]])]
                     ELSE cleared
        pushRaw(st) ==
            IF st.currentRaw = None THEN st.rawMessages
            ELSE Append(st.rawMessages, st.currentRaw[1])
        \* one iteration of the loop over the lines
        parseLine(st, line) ==
            IF ~line.tag
            THEN [st EXCEPT !.textBuffer =
                     IF bufferEmpty(@) THEN <<line>> ELSE Append(@, line)]
            ELSE LET f == flushTextBuffer(st)
                     role == IF line.s = "User" THEN "human" ELSE "assistant"
                 IN  IF line.s \in {"User", "Assistant"}
                     THEN IF f.currentRaw # None /\ f.currentRaw[1].sender = role
                          THEN [f EXCEPT !.error = Some("Consecutive blocks not allowed")]
                          ELSE [f EXCEPT !.rawMessages = pushRaw(f),
                                         !.currentRaw =
                                            Some([sender |-> role, content |-> <<>>,
                                                  files_v2 |-> <<>>, attachments |-> <<>>,
                                                  created_at |-> line.ts]),
                                         !.currentTag = None]
                     ELSE IF f.currentRaw = None
                          THEN [f EXCEPT !.error = Some("Found tag before any message role")]
                          ELSE [f EXCEPT !.currentTag = Some(line)]
        RECURSIVE parseLines(_, _, _)
        parseLines(ls, i, st) ==
            IF i > Len(ls) \/ st.error # None THEN st
            ELSE parseLines(ls, i + 1, parseLine(st, ls[i]))
        \* text.search(/\n\[(.+)\]\n/): the first line reading "[...]" that is
        \* neither the first nor the last line
        bracketed == {i \in 2..(Len(lines) - 1) : lines[i].tag \/ lines[i].s = "[json]"}
        contentStart == CHOOSE i \in bracketed : \A k \in bracketed : i <= k
        st == parseLines(<<TextLine("")>> \o SubSeq(lines, contentStart, Len(lines)), 1,
                         [rawMessages |-> <<>>, currentRaw |-> None, currentTag |-> None,
                          textBuffer |-> <<>>, warnings |-> 0, error |-> None])
        rawMessages == pushRaw(flushTextBuffer(st))
        convert(raw) ==
            [uuid |-> None, parent_message_uuid |-> ROOT, sender |-> raw.sender,
             index |-> 0, content |-> raw.content, created_at |-> raw.created_at,
             files |-> [i \in 1..Len(raw.files_v2) |-> parseFileFromAPI(raw.files_v2[i])]
                       \o [i \in 1..Len(raw.attachments) |->
                              parseFileFromAPI(raw.attachments[i])]]
        Thrown(message) ==
            [ok |-> FALSE, error |-> message, messages |-> <<>>, warnings |-> 0]
    IN  IF bracketed = {} THEN Thrown("No messages found in file")
        ELSE IF st.error # None THEN Thrown(st.error[1])
        ELSE IF rawMessages = <<>> THEN Thrown("No messages found in file")
        ELSE IF rawMessages[1].sender # "human"
        THEN Thrown("Conversation must start with a User message")
        ELSE [ok |-> TRUE, error |-> "",
              messages |-> [i \in 1..Len(rawMessages) |-> convert(rawMessages[i])],
              warnings |-> flushTextBuffer(st).warnings]

MaxExport == 3

\* the contents and files a message of the exported path may carry
ExportBodies ==
    { [content |-> <<TextBlock(<<TextLine("hi")>>)>>, files |-> <<>>],
      [content |-> <<TextBlock(<<TextLine("hello")>>),
                     [type |-> "tool_use", text |-> None, input |-> 7]>>,
       files |-> <<>>],
      [content |-> <<TextBlock(<<TextLine("bye")>>)>>,
       files |-> <<ClaudeAttachment(FileName("a.txt", 0), Content(5, {})),
                   ClaudeFile(1, FileName("p.png", 0), "image")>>],
      [content |-> <<TextBlock(<<TextLine("one")>>), TextBlock(<<TextLine("two")>>)>>,
       files |-> <<>>],
      [content |-> <<TextBlock(<<TextLine(""), TextLine("indented")>>)>>, files |-> <<>>],
      [content |-> <<TextBlock(<<TextLine("see"), TagLine("Assistant", "", None),
                                 TextLine("there")>>)>>, files |-> <<>>],
      [content |-> <<TextBlock(<<TextLine("")>>)>>, files |-> <<>>],
      [content |-> <<>>, files |-> <<>>] }

InitText ==
    /\ \E n \in 0..MaxExport :
         \E senders \in [1..n -> {"human", "assistant"}], bodies \in [1..n -> ExportBodies],
            stamp \in {None, Some(5)} :
            messages = [i \in 1..n |->
                          Message(Some(i), IF i = 1 THEN ROOT ELSE i - 1, senders[i],
                                  bodies[i].content, bodies[i].files, stamp)]
    /\ op = "init"
    /\ maxTokens = 0 /\ greedy = FALSE /\ splitIndex = 0
    /\ chunks = <<>> /\ out = <<>> /\ nextUuid = FreshBase
    /\ IdlePhantom /\ IdleWire /\ IdleTree /\ IdleFork /\ IdleAsync
    /\ exported = <<>> /\ imported = <<>>

\* the export handler writes the tagged-text file of the path
ExportTxt ==
    /\ op = "init"
    /\ exported' = formatTxtExport(messages)
    /\ op' = "export"
    /\ UNCHANGED <<messages, maxTokens, greedy, splitIndex, chunks, out, nextUuid,
                   phantomVars, wireVars, treeVars, imported, forkVars, asyncVars>>

\* the import handler parses the file
ImportTxt ==
    /\ op = "export"
    /\ imported' = <<parseAndValidateText(exported)>>
    /\ op' = "import"
    /\ UNCHANGED <<messages, maxTokens, greedy, splitIndex, chunks, out, nextUuid,
                   phantomVars, wireVars, treeVars, exported, forkVars, asyncVars>>

NextText == ExportTxt \/ ImportTxt

SpecText == InitText /\ [][NextText]_vars

alternatesFromHuman(ms) ==
    /\ Len(ms) > 0
    /\ ms[1].sender = "human"
    /\ \A i \in 2..Len(ms) : ms[i].sender # ms[i - 1].sender

\* every text block of the path satisfies P
allTexts(ms, P(_)) ==
    \A i \in 1..Len(ms) : \A k \in 1..Len(ms[i].content) :
        ms[i].content[k].type = "text" => P(ms[i].content[k].text[1])

\* the text has no blank line at either end
trimmedText(t) ==
    t = <<TextLine("")>> \/ (t[1] # TextLine("") /\ t[Len(t)] # TextLine(""))

\* the import gave as many messages, with the same senders, the same text
\* (the text blocks joined by "\n\n") and the same non-text blocks
sameRoundTrip(ms, result) ==
    LET RECURSIVE JoinLines(_)
        JoinLines(ts) ==
            IF ts = <<>> THEN <<TextLine("")>>
            ELSE IF Len(ts) = 1 THEN ts[1]
            ELSE ts[1] \o <<TextLine("")>> \o JoinLines(Tail(ts))
        linesOf(m) ==
            LET textBlocks == SelectSeq(m.content, LAMBDA c : c.type = "text")
            IN  JoinLines([i \in 1..Len(textBlocks) |-> textBlocks[i].text[1]])
        nonTextOf(m) == SelectSeq(m.content, LAMBDA c : c.type # "text")
    IN  /\ result.ok
        /\ Len(result.messages) = Len(ms)
        /\ \A i \in 1..Len(ms) :
             /\ result.messages[i].sender = ms[i].sender
             /\ linesOf(result.messages[i]) = linesOf(ms[i])
             /\ nonTextOf(result.messages[i]) = nonTextOf(ms[i])

\* C11: for every path that alternates senders and starts with a human turn,
\* export to tagged text and re-import gives as many messages, the same
\* senders in order, the same text per message and the same non-text blocks
\* (type and payload).  Stated here for paths whose texts carry no blank line
\* at either end, which the parser's trim would otherwise change.
C11_TxtRoundTrip ==
    (op = "import" /\ alternatesFromHuman(messages) /\ allTexts(messages, trimmedText))
    => sameRoundTrip(messages, imported[1])

\* the three-message scenario with a tool block and files on the path, none of
\* whose lines reads as a tag, comes back as exported
C11_Witness ==
    /\ op = "import"
    /\ alternatesFromHuman(messages)
    /\ Len(messages) = 3
    /\ \E i \in 1..3 : \E k \in 1..Len(messages[i].content) :
          messages[i].content[k].type = "tool_use"
    /\ \E i \in 1..3 : messages[i].files # <<>>
    /\ sameRoundTrip(messages, imported[1])

----------------------------------------------------------------------------
(* Raw JSON import (exporter.js: parseRawClaudeJson).  The file gives        *)
(* chat_messages and current_leaf_message_uuid; a uuid that names no message *)
(* of the file is a number above their count, and a missing leaf is ROOT     *)
(* (falsy).                                                                  *)

MaxRaw == 4

\* mutant: the walk starts at the last message of the array, as
\* extractLinearBranch does, not at the current leaf
parseRawClaudeJson_lastMessage(data) ==
    LET ms == data.chat_messages
        counts == {Len(childrenOf(ms, p)) : p \in 0..(Len(ms) + 1)}
    IN  IF ms = <<>>
        THEN [ok |-> FALSE, error |-> "Could not reconstruct message branch",
              branch |-> <<>>, warnings |-> 0]
        ELSE [ok |-> TRUE, error |-> "",
              branch |-> walkToRoot(ms, Some(ms[Len(ms)]), <<>>),
              warnings |-> IF \E c \in counts : c > 1 THEN 1 ELSE 0]

\* parseRawClaudeJson(jsonText): [ok, error, branch, warnings]; ok = FALSE
\* for a throw; the returned messages are made one per element of branch, in
\* its order
parseRawClaudeJson(data) ==
    LET ms == data.chat_messages
        Thrown(message) ==
            [ok |-> FALSE, error |-> message, branch |-> <<>>, warnings |-> 0]
        walked == walkToRoot(ms, messageMapGet(ms, data.current_leaf_message_uuid), <<>>)
        \* parentCounts: the messages per parent id
        parentIds == {ms[i].parent_message_uuid : i \in 1..Len(ms)}
        hasBranches == \E p \in parentIds : Len(childrenOf(ms, p)) > 1
    IN  IF data.current_leaf_message_uuid = ROOT
        THEN Thrown("Invalid Claude JSON format: missing current_leaf_message_uuid")
        ELSE IF walked = <<>> THEN Thrown("Could not reconstruct message branch")
        ELSE [ok |-> TRUE, error |-> "", branch |-> walked,
              warnings |-> IF hasBranches THEN 1 ELSE 0]

\* whether following parent links from message i ends, at ROOT or at a uuid
\* that names no message (n + 1)
RECURSIVE walkEnds(_, _, _)
walkEnds(parents, i, fuel) ==
    IF i \notin DOMAIN parents THEN TRUE
    ELSE IF fuel = 0 THEN FALSE
    ELSE walkEnds(parents, parents[i], fuel - 1)

\* the files: any parent links without a cycle, dangling ones included, and
\* any leaf
InitRaw ==
    /\ \E n \in 0..MaxRaw :
         \E parents \in [1..n -> 0..(n + 1)], leaf \in 0..(n + 1) :
            /\ \A i \in 1..n : walkEnds(parents, i, n)
            /\ conversationData = [i \in 1..n |-> TreeMessage(i, parents[i], 1)]
            /\ current_leaf_message_uuid = leaf
    /\ longest = <<>> /\ branch = <<>> /\ rawImport = <<>>
    /\ messages = <<>> /\ op = "none" /\ maxTokens = 0 /\ greedy = FALSE
    /\ splitIndex = 0 /\ chunks = <<>> /\ out = <<>> /\ nextUuid = 0
    /\ IdlePhantom /\ IdleWire /\ IdleLater

\* the import handler parses the raw JSON file
ParseRaw ==
    /\ op = "none"
    /\ rawImport' = <<parseRawClaudeJson(
                        [chat_messages |-> conversationData,
                         current_leaf_message_uuid |-> current_leaf_message_uuid])>>
    /\ op' = "parseRaw"
    /\ UNCHANGED <<conversationData, longest, branch, current_leaf_message_uuid>>
    /\ UNCHANGED <<messages, maxTokens, greedy, splitIndex, chunks, out, nextUuid,
                   phantomVars, wireVars, laterVars>>

NextRaw == ParseRaw

SpecRaw == InitRaw /\ [][NextRaw]_vars

\* the uuids on the parent chain of uuid, leaf first; the chain ends at ROOT
\* or at a uuid that names no message
RECURSIVE chainOf(_, _)
chainOf(ms, uuid) ==
    IF uuid \notin 1..Len(ms) THEN <<>>
    ELSE <<uuid>> \o chainOf(ms, ms[uuid].parent_message_uuid)

\* the chain from the leaf ends at ROOT
leafReachesRoot ==
    LET chain == chainOf(conversationData, current_leaf_message_uuid)
    IN  /\ chain # <<>>
        /\ conversationData[chain[Len(chain)]].parent_message_uuid = ROOT

someParentHasTwo ==
    \E p \in 0..(Len(conversationData) + 1) : Len(childrenOf(conversationData, p)) > 1

\* C12: on a message set in which some parent has more than one child,
\* parseRawClaudeJson warns of multiple branches and returns exactly the
\* messages on the path from ROOT to current_leaf_message_uuid, root first,
\* none of a sibling branch; on a set without such a parent it does not warn.
C12_ActiveBranchOnly ==
    (op = "parseRaw" /\ leafReachesRoot) =>
        LET result == rawImport[1]
            chain == chainOf(conversationData, current_leaf_message_uuid)
        IN  /\ result.ok
            /\ result.warnings = (IF someParentHasTwo THEN 1 ELSE 0)
            /\ Len(result.branch) = Len(chain)
            /\ \A i \in 1..Len(chain) :
                  result.branch[i] = conversationData[chain[Len(chain) + 1 - i]]

\* a set where the second message has two children and the leaf is not the
\* last message of the file has been imported
C12_Witness ==
    /\ op = "parseRaw" /\ leafReachesRoot
    /\ Len(conversationData) = 4
    /\ Len(childrenOf(conversationData, 2)) = 2
    /\ current_leaf_message_uuid = 3
    /\ conversationData[3].parent_message_uuid = 2
    /\ Len(rawImport[1].branch) = 3
    /\ rawImport[1].warnings = 1

\* a parent id on the path from the leaf is neither ROOT nor a message
danglingOnPath ==
    LET chain == chainOf(conversationData, current_leaf_message_uuid)
    IN  /\ chain # <<>>
        /\ conversationData[chain[Len(chain)]].parent_message_uuid # ROOT

\* C13: the leaf-to-root walk fails with an error whenever a parent id on the
\* path is neither ROOT nor present in the message set; it never returns a
\* truncated path.
C13_DanglingParentFails ==
    (op = "parseRaw" /\ danglingOnPath) => ~rawImport[1].ok

----------------------------------------------------------------------------
(* Fork flow (file-download.js: forkConversationClicked, chunkAndSummarize, *)
(* showSummaryEditModal, createFork).  The handler is followed from one     *)
(* await to the next; op is its position.  The history holds text-only      *)
(* messages, phantomStore holds the phantom messages of the source          *)
(* conversation as getPhantomMessagesFromMain returns them, and the toggles *)
(* of the dialog keep their defaults.                                       *)

MaxFork == 7
MaxRevise == 2

SUMMARY_ACK_TEXT ==
    Str("Acknowledged. I understand the context from the summary and am ready to continue our conversation.", 98)
FORK_TEXT ==
    Str("This conversation is forked from the attached chatlog.txt. Simply say 'Acknowledged' and wait for user input.", 108)

\* mutant: no request is made
delete_noRequest(conversation) == conversation

\* ClaudeConversation.delete(): one DELETE request
delete(conversation) == [conversation EXCEPT !.deletes = @ + 1]

\* a request to the oracle on the scratch conversation and whether it succeeded
oracleRequest(conversation, kind, chunk, priors, ok) ==
    [conversation EXCEPT !.requests =
        Append(@, [kind |-> kind, chunk |-> chunk, priors |-> priors, ok |-> ok])]

\* generateSummaryForChunk 1093-1096, showSummaryEditModal 1572-1577: the
\* summaries before a chunk, attached as summary_chunk_1.txt, summary_chunk_2.txt, ...
priorSummaryAttachments(texts) ==
    [k \in 1..Len(texts) |-> [text |-> texts[k], filename |-> FileName("summary_chunk", k)]]

\* the text of the summary of a chunk, u telling the chunk and the revision
summaryOf(chunk, revision) ==
    <<[s |-> "summary", n |-> 2000, u |-> 10 * chunk + revision]>>

\* forkConversationClicked 633-646: the number of messages to summarize
splitForSummary(ms, rawTextPercentage) ==
    LET totalTokens == estimateTokens(ms)
        targetKeepTokens == CeilDiv(totalTokens * rawTextPercentage, 100)
        keepCount == takeMessagesFromEnd(ms, targetKeepTokens, TRUE)
        \* the while loop, on the 1-based position of the first kept message
        RECURSIVE toHuman(_)
        toHuman(k) ==
            IF k <= Len(ms) /\ ms[k].sender # "human" THEN toHuman(k + 1) ELSE k
        first == toHuman(Len(ms) - keepCount + 1)
    IN  IF first > Len(ms) THEN 0 ELSE first - 1

\* getChatlogFromMessages(messages, false), for messages without files
getChatlogFromMessages(ms, n) ==
    LET cleaned == cleanupMessages(ms, n).list
    IN  [text |-> JoinTexts([i \in 1..Len(cleaned) |-> textOf(cleaned[i])]),
         filename |-> FileName("chatlog.txt", 0)]

\* mutant: every synthetic human turn hangs off ROOT
syntheticMessages_unchained(editedSummaryTexts, n) ==
    Flatten([i \in 1..Len(editedSummaryTexts) |->
        LET userUuid == FreshBase + n + 2 * (i - 1)
        IN  <<Message(userUuid, ROOT, "human",
                      <<TextBlock(editedSummaryTexts[i])>>, <<>>, 0),
              Message(userUuid + 1, userUuid, "assistant",
                      <<TextBlock(SUMMARY_ACK_TEXT)>>, <<>>, 0)>>])

\* chunkAndSummarize phase 3: a human and an assistant message per summary
syntheticMessages(editedSummaryTexts, n) ==
    Flatten([i \in 1..Len(editedSummaryTexts) |->
        LET userUuid == FreshBase + n + 2 * (i - 1)
        IN  <<Message(userUuid, IF i = 1 THEN ROOT ELSE userUuid - 1, "human",
                      <<TextBlock(editedSummaryTexts[i])>>, <<>>, 0),
              Message(userUuid + 1, userUuid, "assistant",
                      <<TextBlock(SUMMARY_ACK_TEXT)>>, <<>>, 0)>>])

\* forkConversationClicked 653-667: the phantom messages of the source that
\* the summarized part does not cover
phantomsToCarryOver(existingPhantoms, toSummarize) ==
    LET phantomTokens == IF Len(existingPhantoms) > 0 THEN estimateTokens(existingPhantoms)
                         ELSE 0
        tokensToSummarize == estimateTokens(toSummarize)
    IN  IF Len(existingPhantoms) > 0 /\ tokensToSummarize < phantomTokens
        THEN sliceLast(existingPhantoms,
                       takeMessagesFromEnd(existingPhantoms,
                                           phantomTokens - tokensToSummarize, TRUE))
        ELSE <<>>

\* the first message of ms re-parented: ms[0].parent_message_uuid = uuid
reparentFirst(ms, uuid) ==
    [i \in 1..Len(ms) |-> IF i = 1 THEN [ms[1] EXCEPT !.parent_message_uuid = uuid]
                          ELSE ms[i]]

ForkPercentages == {0, 50, 100}

\* the phantom messages the source conversation may hold
ForkPhantoms ==
    { <<>>,
      <<Message(PhantomBase + 1, ROOT, "human", <<TextBlock(Str("old", 120004))>>, <<>>, 0),
        Message(PhantomBase + 2, PhantomBase + 1, "assistant",
                <<TextBlock(Str("old", 120004))>>, <<>>, 0)>> }

InitFork ==
    /\ \E n \in 1..MaxFork : \E chars \in [1..n -> {240, 59999}] :
          messages = [i \in 1..n |->
                        ChunkMessage(i, IF i % 2 = 1 THEN "human" ELSE "assistant",
                                     chars[i])]
    /\ \E p \in ForkPercentages : pendingFork = [rawTextPercentage |-> p]
    /\ op = "clicked" /\ review = "none"
    /\ summaryTexts = <<>> /\ forkAttachments = <<>>
    /\ tempConversation = [created |-> FALSE, inFlight |-> <<>>, requests |-> <<>>,
                           deletes |-> 0]
    /\ forkConversation = [created |-> FALSE, phantoms |-> <<>>, sent |-> <<>>]
    /\ maxTokens = 0 /\ greedy = FALSE /\ splitIndex = 0
    /\ chunks = <<>> /\ out = <<>> /\ nextUuid = 0
    /\ phantomStore \in ForkPhantoms
    /\ chat_messages = <<>> /\ lastRead = <<>> /\ forwarded = <<>> /\ timedOut = FALSE
    /\ IdleWire /\ IdleTree /\ IdleText /\ IdleAsync

\* forkConversationClicked 598-669 and 702-718: up to the call of
\* chunkAndSummarize, or of createFork when nothing is summarized
PrepareFork ==
    /\ op = "clicked"
    /\ IF pendingFork.rawTextPercentage < 100
       THEN LET r == normalizeOversizedMessages(messages, nextUuid)
                split == splitForSummary(r.list, pendingFork.rawTextPercentage)
            IN  /\ out' = r.list /\ nextUuid' = r.next
                /\ splitIndex' = split
                /\ forkAttachments' = <<>>
                /\ op' = IF split > 0 THEN "createScratch" ELSE "createFork"
       ELSE /\ out' = IF Len(phantomStore) > 0
                      THEN phantomStore
                           \o reparentFirst(messages, phantomStore[Len(phantomStore)].uuid)
                      ELSE messages
            /\ forkAttachments' = <<getChatlogFromMessages(messages, nextUuid)>>
            /\ op' = "createFork"
            /\ UNCHANGED <<nextUuid, splitIndex>>
    /\ UNCHANGED <<messages, maxTokens, greedy, chunks, pendingFork, review,
                   summaryTexts, tempConversation, forkConversation,
                   phantomVars, wireVars, treeVars, textVars, asyncVars>>

\* chunkAndSummarize 1308-1315: tempConversation.create, which may fail, and
\* the chunk boundaries
CreateScratch ==
    /\ op = "createScratch"
    /\ \E ok \in BOOLEAN :
         IF ok
         THEN /\ tempConversation' = [tempConversation EXCEPT !.created = TRUE]
              /\ chunks' = calculateChunkBoundaries(SubSeq(out, 1, splitIndex))
              /\ op' = "summarize"
         ELSE /\ op' = "failed"
              /\ UNCHANGED <<tempConversation, chunks>>
    /\ UNCHANGED <<messages, maxTokens, greedy, splitIndex, out, nextUuid, pendingFork,
                   review, summaryTexts, forkAttachments, forkConversation,
                   phantomVars, wireVars, treeVars, textVars, asyncVars>>

\* mutant: the requests of all chunks are started without awaiting the summary
\* of the chunk before
SendSummary_eager ==
    /\ op = "summarize"
    /\ Len(summaryTexts) + Len(tempConversation.inFlight) < Len(chunks)
    /\ tempConversation' =
          [tempConversation EXCEPT !.inFlight =
              Append(@, [chunk |-> Len(summaryTexts) + Len(@) + 1,
                         priors |-> priorSummaryAttachments(summaryTexts)])]
    /\ UNCHANGED <<messages, op, maxTokens, greedy, splitIndex, chunks, out, nextUuid,
                   pendingFork, review, summaryTexts, forkAttachments, forkConversation,
                   phantomVars, wireVars, treeVars, textVars, asyncVars>>

\* chunkAndSummarize 1321-1326 and generateSummaryForChunk 1075-1114: the next
\* iteration of the loop builds the summary message of its chunk, with the
\* summaries received so far attached, and posts it; the loop awaits the answer
SendSummary ==
    /\ op = "summarize"
    /\ tempConversation.inFlight = <<>>
    /\ tempConversation' =
          [tempConversation EXCEPT !.inFlight =
              <<[chunk |-> Len(summaryTexts) + 1,
                 priors |-> priorSummaryAttachments(summaryTexts)]>>]
    /\ UNCHANGED <<messages, op, maxTokens, greedy, splitIndex, chunks, out, nextUuid,
                   pendingFork, review, summaryTexts, forkAttachments, forkConversation,
                   phantomVars, wireVars, treeVars, textVars, asyncVars>>

\* mutant: a failed summary request is skipped and the loop goes on
SummarizeChunk_skipFailed ==
    /\ op = "summarize"
    /\ tempConversation.inFlight # <<>>
    /\ \E ok \in BOOLEAN :
         LET i == Len(summaryTexts) + 1
             sent == Head(tempConversation.inFlight)
             asked == oracleRequest([tempConversation EXCEPT !.inFlight = Tail(@)],
                                    "summary", sent.chunk, sent.priors, ok)
         IN  /\ tempConversation' = asked
             /\ summaryTexts' = Append(summaryTexts, summaryOf(i, 0))
             /\ review' = IF i = Len(chunks) THEN "open" ELSE review
             /\ op' = IF i = Len(chunks) THEN "review" ELSE "summarize"
    /\ UNCHANGED <<messages, maxTokens, greedy, splitIndex, chunks, out, nextUuid,
                   pendingFork, forkAttachments, forkConversation,
                   phantomVars, wireVars, treeVars, textVars, asyncVars>>

\* chunkAndSummarize 1321-1339 and generateSummaryForChunk 1113-1116: the
\* awaited answer to the summary request arrives, or the request fails.  A
\* failure leaves through the finally block; after the last summary the
\* review modal opens
SummarizeChunk ==
    /\ op = "summarize"
    /\ tempConversation.inFlight # <<>>
    /\ \E ok \in BOOLEAN :
         LET i == Len(summaryTexts) + 1
             sent == Head(tempConversation.inFlight)
             asked == oracleRequest([tempConversation EXCEPT !.inFlight = Tail(@)],
                                    "summary", sent.chunk, sent.priors, ok)
         IN  IF ok
             THEN /\ tempConversation' = asked
                  /\ summaryTexts' = Append(summaryTexts, summaryOf(i, 0))
                  /\ review' = IF i = Len(chunks) THEN "open" ELSE review
                  /\ op' = IF i = Len(chunks) THEN "review" ELSE "summarize"
             ELSE /\ tempConversation' = delete(asked)
                  /\ op' = "failed"
                  /\ UNCHANGED <<summaryTexts, review>>
    /\ UNCHANGED <<messages, maxTokens, greedy, splitIndex, chunks, out, nextUuid,
                   pendingFork, forkAttachments, forkConversation,
                   phantomVars, wireVars, treeVars, textVars, asyncVars>>

\* showSummaryEditModal 1556-1634: "edit with Claude" on the summary shown.  A
\* failure is caught and shown as an alert; the modal stays open
ReviseChunk ==
    /\ op = "review"
    /\ Len(SelectSeq(tempConversation.requests, LAMBDA r : r.kind = "rewrite"))
          < MaxRevise
    /\ \E currentIndex \in 1..Len(summaryTexts), ok \in BOOLEAN :
         /\ tempConversation' =
               oracleRequest(tempConversation, "rewrite", currentIndex,
                             priorSummaryAttachments(SubSeq(summaryTexts, 1, currentIndex - 1)),
                             ok)
         /\ summaryTexts' =
               IF ok
               THEN [summaryTexts EXCEPT ![currentIndex] =
                        summaryOf(currentIndex, Len(tempConversation.requests))]
               ELSE summaryTexts
    /\ UNCHANGED <<messages, op, maxTokens, greedy, splitIndex, chunks, out, nextUuid,
                   pendingFork, review, forkAttachments, forkConversation,
                   phantomVars, wireVars, treeVars, textVars, asyncVars>>

\* mutant: the rejection of the review is swallowed and the flow goes on with
\* the summaries shown
CancelReview_goesOn ==
    /\ op = "review"
    /\ review' = "cancelled"
    /\ tempConversation' = delete(tempConversation)
    /\ op' = "createFork"
    /\ UNCHANGED <<messages, maxTokens, greedy, splitIndex, chunks, out, nextUuid,
                   pendingFork, summaryTexts, forkAttachments, forkConversation,
                   phantomVars, wireVars, treeVars, textVars, asyncVars>>

\* showSummaryEditModal 1646-1648: Cancel rejects with USER_CANCELLED, which
\* leaves chunkAndSummarize through its finally block and ends
\* forkConversationClicked in its catch (760-764)
CancelReview ==
    /\ op = "review"
    /\ review' = "cancelled"
    /\ tempConversation' = delete(tempConversation)
    /\ op' = "cancelled"
    /\ UNCHANGED <<messages, maxTokens, greedy, splitIndex, chunks, out, nextUuid,
                   pendingFork, summaryTexts, forkAttachments, forkConversation,
                   phantomVars, wireVars, treeVars, textVars, asyncVars>>

\* showSummaryEditModal 1650-1654, chunkAndSummarize 1341-1391 and
\* forkConversationClicked 672-700: Submit resolves with the texts, the
\* synthetic messages are built, the scratch conversation is deleted, and the
\* attachments and the message list of the fork are put together
SubmitReview ==
    /\ op = "review"
    /\ review' = "submitted"
    /\ tempConversation' = delete(tempConversation)
    /\ LET summaryMsgs == syntheticMessages(summaryTexts, nextUuid)
           carried == phantomsToCarryOver(phantomStore, SubSeq(out, 1, splitIndex))
           phantoms == reparentFirst(carried, summaryMsgs[Len(summaryMsgs)].uuid)
           kept == SubSeq(out, splitIndex + 1, Len(out))
           toKeep == reparentFirst(kept, IF Len(carried) > 0 THEN carried[Len(carried)].uuid
                                         ELSE summaryMsgs[Len(summaryMsgs)].uuid)
           nextAfter == nextUuid + Len(summaryMsgs)
       IN  /\ forkAttachments' =
                [i \in 1..Len(summaryTexts) |->
                    [text |-> summaryTexts[i], filename |-> FileName("summary_chunk", i)]]
                \o (IF Len(toKeep) > 0
                    THEN <<getChatlogFromMessages(toKeep, nextAfter)>> ELSE <<>>)
           /\ out' = summaryMsgs \o phantoms \o toKeep
           /\ nextUuid' = nextAfter
    /\ op' = "createFork"
    /\ UNCHANGED <<messages, maxTokens, greedy, splitIndex, chunks, pendingFork,
                   summaryTexts, forkConversation,
                   phantomVars, wireVars, treeVars, textVars, asyncVars>>

\* createFork 965-1003: the conversation is created, the cleaned messages are
\* stored as its phantom messages, and the first turn is sent with the fork
\* attachments
CreateFork ==
    /\ op = "createFork"
    /\ LET r == cleanupMessages(out, nextUuid)
       IN  /\ forkConversation' =
                 [created |-> TRUE, phantoms |-> r.list,
                  sent |-> <<[text |-> FORK_TEXT,
                              attachments |-> [i \in 1..Len(forkAttachments) |->
                                                 forkAttachments[i].filename]]>>]
           /\ nextUuid' = r.next
    /\ op' = "done"
    /\ UNCHANGED <<messages, maxTokens, greedy, splitIndex, chunks, out, pendingFork,
                   review, summaryTexts, forkAttachments, tempConversation,
                   phantomVars, wireVars, treeVars, textVars, asyncVars>>

NextFork ==
    \/ PrepareFork \/ CreateScratch \/ SendSummary \/ SummarizeChunk \/ ReviseChunk
    \/ CancelReview \/ SubmitReview \/ CreateFork

SpecFork == InitFork /\ [][NextFork]_vars

\* the handler has left chunkAndSummarize, or ended
leftSummarize == op \in {"failed", "cancelled", "createFork", "done"}

\* C14: on every exit path of chunkAndSummarize after the scratch conversation
\* was created (all summaries accepted, an oracle call failing at any chunk, the
\* user cancelling the review) a delete of the scratch conversation is issued
\* exactly once; none is issued before the exit.
C14_ScratchDeletedOnce ==
    /\ (tempConversation.created /\ leftSummarize) => tempConversation.deletes = 1
    /\ (tempConversation.created /\ ~leftSummarize) => tempConversation.deletes = 0
    /\ ~tempConversation.created => tempConversation.deletes = 0

\* the summary of the second of two chunks failed after the first was received
C14_Witness ==
    /\ op = "failed"
    /\ Len(chunks) = 2
    /\ Len(summaryTexts) = 1
    /\ tempConversation.created
    /\ tempConversation.deletes = 1

noDestinationWrite ==
    /\ ~forkConversation.created
    /\ forkConversation.phantoms = <<>>
    /\ forkConversation.sent = <<>>

\* C15: when the user cancels the review, the operation ends cancelled with
\* no partial commit: no fork conversation is created, no phantom sequence is
\* stored and no turn is sent to a destination.
C15_CancelCommitsNothing ==
    review = "cancelled" => (op = "cancelled" /\ noDestinationWrite)

\* the review of two summaries, one of them rewritten, was cancelled
C15_Witness ==
    /\ review = "cancelled"
    /\ Len(summaryTexts) = 2
    /\ \E r \in 1..Len(tempConversation.requests) :
          tempConversation.requests[r].kind = "rewrite" /\ tempConversation.requests[r].ok
    /\ noDestinationWrite

failedRequest(kind) ==
    \E r \in 1..Len(tempConversation.requests) :
        tempConversation.requests[r].kind = kind /\ ~tempConversation.requests[r].ok

\* C16 as stated: a failure of any oracle call of the operation, the summary
\* request of a chunk or a revise request during review, aborts the operation:
\* no fork is created.
C16_AnyOracleFailureAborts ==
    (failedRequest("summary") \/ failedRequest("rewrite")) => ~forkConversation.created

\* C16, amended: a failed summary request aborts the operation, no summary
\* set is used and no fork is created; a failed revise request leaves the
\* summaries as they were and the review open.
C16_SummaryFailureAborts ==
    /\ failedRequest("summary") =>
          (op = "failed" /\ review = "none" /\ forkAttachments = <<>> /\ noDestinationWrite)
    /\ (op = "review" /\ ~failedRequest("summary")) =>
          /\ review = "open"
          /\ Len(summaryTexts) = Len(chunks)
          /\ \A i \in 1..Len(summaryTexts) :
                \E r \in 1..Len(tempConversation.requests) :
                    LET q == tempConversation.requests[r]
                    IN  /\ q.ok /\ q.chunk = i
                        /\ summaryTexts[i] =
                              summaryOf(i, IF q.kind = "summary" THEN 0 ELSE r - 1)
                        /\ \A later \in (r + 1)..Len(tempConversation.requests) :
                              tempConversation.requests[later].chunk = i
                                  => ~tempConversation.requests[later].ok

\* the summary of the second of two chunks failed: nothing was used
C16_Witness ==
    /\ failedRequest("summary")
    /\ Len(chunks) = 2
    /\ Len(summaryTexts) = 1
    /\ op = "failed"

\* C20: whenever the fork flow creates a fork from a non-empty history,
\* forkAttachments is non-empty at the createFork call, for every percentage
\* kept verbatim and every outcome of the split.
C20_ForkCarriesHistory ==
    (op = "createFork" /\ messages # <<>>) => forkAttachments # <<>>

summaryRequests == SelectSeq(tempConversation.requests, LAMBDA r : r.kind = "summary")

\* C23: chunks are summarized one after the other, in order: the request for
\* chunk i is sent only after the summaries of the chunks before it have been
\* received, it carries exactly those summaries, in chunk order, as
\* summary_chunk_1 .. summary_chunk_(i-1) (none for the first chunk), and at no
\* time are two oracle requests of the operation in flight.
C23_SummariesSequential ==
    /\ Len(tempConversation.inFlight) <= 1
    /\ \A q \in 1..Len(tempConversation.inFlight) :
          LET sent == tempConversation.inFlight[q]
          IN  /\ sent.chunk = Len(summaryTexts) + 1
              /\ sent.chunk <= Len(chunks)
              /\ Len(summaryRequests) = sent.chunk - 1
              /\ \A r \in 1..Len(summaryRequests) : summaryRequests[r].ok
              /\ sent.priors = priorSummaryAttachments(summaryTexts)
    /\ \A r \in 1..Len(summaryRequests) :
          /\ summaryRequests[r].chunk = r
          /\ Len(summaryRequests[r].priors) = r - 1
          /\ \A k \in 1..(r - 1) :
                summaryRequests[r].priors[k] =
                    [text |-> summaryOf(k, 0), filename |-> FileName("summary_chunk", k)]
    /\ tempConversation.inFlight # <<>> => op = "summarize"

\* the request of the third chunk is in flight and carries two summaries
C23_Witness ==
    /\ op = "summarize"
    /\ Len(tempConversation.inFlight) = 1
    /\ tempConversation.inFlight[1].chunk = 3
    /\ Len(tempConversation.inFlight[1].priors) = 2
    /\ Len(summaryTexts) = 2


\* the messages handed to createFork after a submitted review, and the number
\* of summaries submitted
finalized == op = "createFork" /\ review = "submitted"

----------------------------------------------------------------------------
(* ClaudeConversation.getData / getMessages (claude-api.js 176-195): the    *)
(* conversation object under test is conv; its conversationData is the      *)
(* response cached, [tree, rev, chat_messages]: the tree parameter it was   *)
(* fetched with, the number of the fetch that brought it, and whether it    *)
(* has a chat_messages list.                                                *)

MaxCalls == 3

\* getData(tree, forceRefresh), given what the remote answers if it is asked:
\* the object afterwards, whether the call returned or threw, what it returned
getData(conversation, tree, forceRefresh, response) ==
    IF \/ conversation.conversationData = None
       \/ forceRefresh
       \/ (tree /\ ~conversation.conversationData[1].chat_messages)
    THEN IF ~response.ok
         THEN [conversation |-> [conversation EXCEPT !.fetches = Append(@, tree)],
               ok |-> FALSE, data |-> None, fetched |-> TRUE]
         ELSE LET data == [tree |-> tree, rev |-> Len(conversation.fetches) + 1,
                           chat_messages |-> response.chat_messages]
              IN  [conversation |-> [conversation EXCEPT !.fetches = Append(@, tree),
                                                         !.conversationData = Some(data)],
                   ok |-> TRUE, data |-> Some(data), fetched |-> TRUE]
    ELSE [conversation |-> conversation, ok |-> TRUE,
          data |-> conversation.conversationData, fetched |-> FALSE]

InitCache ==
    /\ conv = [conversationData |-> None, fetches |-> <<>>, calls |-> <<>>]
    /\ sync = <<>> /\ bridge = <<>>
    /\ IdleChunk /\ IdlePhantom /\ IdleWire /\ IdleTree /\ IdleText /\ IdleFork

\* one call of getData or getMessages on the object; getMessages returns the
\* chat_messages of what getData returns
CallGetData ==
    /\ Len(conv.calls) < MaxCalls
    /\ \E method \in {"getData", "getMessages"}, tree \in BOOLEAN, forceRefresh \in BOOLEAN,
          ok \in BOOLEAN, hasMessages \in BOOLEAN :
          LET r == getData(conv, tree, forceRefresh,
                           [ok |-> ok, chat_messages |-> hasMessages])
          IN  conv' = [r.conversation EXCEPT !.calls =
                          Append(@, [method |-> method, tree |-> tree,
                                     forceRefresh |-> forceRefresh, ok |-> r.ok,
                                     data |-> r.data, fetched |-> r.fetched,
                                     before |-> conv.conversationData])]
    /\ UNCHANGED <<chunkVars, phantomVars, wireVars, treeVars, textVars, forkVars,
                   sync, bridge>>

NextCache == CallGetData

SpecCache == InitCache /\ [][NextCache]_vars

\* the cache as the call left it
cacheAfter(k) ==
    IF k = Len(conv.calls) THEN conv.conversationData ELSE conv.calls[k + 1].before

\* C25: on one conversation object, after any sequence of getData and
\* getMessages calls, a call made with tree = true returns a response that was
\* fetched with tree = true; without forceRefresh a call whose needs the cache
\* meets performs no fetch, with forceRefresh a call always fetches, and a
\* failed fetch leaves the cached response unchanged.
C25_TreeCallsGetTreeData ==
    \A k \in 1..Len(conv.calls) :
        LET c == conv.calls[k]
        IN  /\ (c.tree /\ c.ok) => c.data[1].tree
            /\ (/\ ~c.forceRefresh /\ c.before # None
                /\ c.tree => (c.before[1].tree /\ c.before[1].chat_messages)) => ~c.fetched
            /\ c.forceRefresh => c.fetched
            /\ (c.fetched /\ ~c.ok) => cacheAfter(k) = c.before

\* a call with tree = true on an object whose cache holds a response with
\* messages fetched with tree = false
C25_Witness ==
    \E k \in 1..Len(conv.calls) :
        LET c == conv.calls[k]
        IN  /\ c.tree /\ ~c.forceRefresh /\ c.ok
            /\ c.before # None /\ ~c.before[1].tree /\ c.before[1].chat_messages

----------------------------------------------------------------------------
(* ClaudeConversation.sendMessageAndWaitForResponse, the polling loop after *)
(* the completion stream has ended (claude-api.js 113-140, part_001         *)
(* 113-140).  The two copies of the class differ in the property the find   *)
(* callback reads: msg.createdAt (claude-api.js 128) or msg.created_at      *)
(* (part_001 128); conv.timeKey is the one of the copy loaded.  A           *)
(* ClaudeMessage has a created_at property and no createdAt property        *)
(* (claude-api.js 605, 636), so msg.createdAt is undefined and              *)
(* undefined > requestSentTime is false.  Times are numbers.                *)

maxAttempts == 30
requestSentTime == 2

\* what a poll may fetch: [sender, created_at] in list order
PolledMessages ==
    LET H(t) == [sender |-> "human", created_at |-> t]
        A(t) == [sender |-> "assistant", created_at |-> t]
    IN  { <<>>, <<H(1)>>, <<H(1), A(1)>>, <<H(1), A(1), H(3)>>, <<H(1), A(2)>>,
          <<H(3), A(3)>>, <<H(1), A(1), H(3), A(4)>>, <<H(3), A(3), H(5), A(6)>> }

\* msg.sender === 'assistant' && msg[timeKey] > requestSentTime
isNewAssistant(m, timeKey) ==
    /\ m.sender = "assistant"
    /\ timeKey = "created_at"
    /\ m.created_at > requestSentTime

\* messages.find(...): the first match, or undefined
find(ms, timeKey) ==
    LET hits == SelectSeq(ms, LAMBDA m : isNewAssistant(m, timeKey))
    IN  IF hits = <<>> THEN None ELSE Some(hits[1])

InitPoll ==
    /\ \E timeKey \in {"createdAt", "created_at"} :
          conv = [conversationData |-> None, fetches |-> <<>>, calls |-> <<>>,
                  timeKey |-> timeKey, state |-> "polling", attempts |-> 0, waits |-> 0,
                  messages |-> <<>>, assistantMessage |-> None, sawNew |-> FALSE]
    /\ sync = <<>> /\ bridge = <<>>
    /\ IdleChunk /\ IdlePhantom /\ IdleWire /\ IdleTree /\ IdleText /\ IdleFork

\* one turn of the while loop and the test that follows it: the 3 s wait
\* (not before the first attempt), getMessages(false, true), find, attempts++
Poll ==
    /\ conv.state = "polling"
    /\ conv.assistantMessage = None /\ conv.attempts < maxAttempts
    /\ \E ok \in BOOLEAN, fetched \in PolledMessages :
          LET r == getData(conv, FALSE, TRUE, [ok |-> ok, chat_messages |-> TRUE])
              waited == IF conv.attempts > 0 THEN conv.waits + 1 ELSE conv.waits
              assistantMessage == find(fetched, conv.timeKey)
              attempts == conv.attempts + 1
          IN  IF ~r.ok
              THEN conv' = [r.conversation EXCEPT !.waits = waited, !.state = "fetchFailed"]
              ELSE conv' = [r.conversation EXCEPT
                              !.waits = waited, !.messages = fetched,
                              !.assistantMessage = assistantMessage,
                              !.attempts = attempts,
                              !.sawNew = \E i \in 1..Len(fetched) :
                                            /\ fetched[i].sender = "assistant"
                                            /\ fetched[i].created_at > requestSentTime,
                              !.state = IF assistantMessage # None THEN "returned"
                                        ELSE IF attempts < maxAttempts THEN "polling"
                                        ELSE "notFound"]
    /\ UNCHANGED <<chunkVars, phantomVars, wireVars, treeVars, textVars, forkVars,
                   sync, bridge>>

NextPoll == Poll

SpecPoll == InitPoll /\ [][NextPoll]_vars

\* C26: after the stream has ended the conversation is polled with
\* force-refresh at most 30 times, with one 3 s wait between two attempts; if
\* some attempt fetches an assistant message created after the send time the
\* call returns that message without polling again, and otherwise it fails
\* after the 30th attempt; it never returns a message created before the send
\* time.
C26_BoundedPolling ==
    /\ conv.attempts <= maxAttempts
    /\ Len(conv.fetches) <= maxAttempts
    /\ \A i \in 1..Len(conv.fetches) : ~conv.fetches[i]
    /\ conv.state # "fetchFailed" =>
          /\ Len(conv.fetches) = conv.attempts
          /\ conv.waits = (IF conv.attempts = 0 THEN 0 ELSE conv.attempts - 1)
    /\ conv.sawNew =>
          /\ conv.state = "returned"
          /\ conv.assistantMessage # None
          /\ conv.assistantMessage[1] \in {conv.messages[i] : i \in 1..Len(conv.messages)}
    /\ conv.state = "returned" =>
          /\ conv.assistantMessage # None
          /\ conv.assistantMessage[1].sender = "assistant"
          /\ conv.assistantMessage[1].created_at > requestSentTime
    /\ conv.state = "notFound" => (conv.attempts = maxAttempts /\ ~conv.sawNew)
    /\ (conv.state = "polling" /\ conv.attempts > 0) => ~conv.sawNew

\* the third poll fetched an assistant message created after the send time
C26_Witness ==
    /\ conv.attempts = 3 /\ conv.waits = 2
    /\ conv.sawNew
    /\ conv.state # "fetchFailed"

----------------------------------------------------------------------------
(* syncConversationsIndividually (global-search.js 57-106): two workers     *)
(* (processChunk on chunk1 and chunk2) run from one await to the next.      *)
(* sync.worker[w] is the worker's loop index i and its position: "check"    *)
(* (top of the loop), "fetch" (awaiting getMessages), "store" (awaiting     *)
(* setMessages), "delay" (awaiting the rate-limit timer), "done", and       *)
(* "gone" once the page, and with it every pending continuation, has been   *)
(* torn down by the reload the Cancel button asks for.  startedCancelled    *)
(* and recordedCancelled tell what was started and recorded after Cancel.   *)

MaxSync == 4

\* mutant: both workers are given the whole worklist
chunkOf_whole(toUpdate, w) == toUpdate

\* chunk1 = toUpdate.filter((_, i) => i % 2 === 0), chunk2 likewise with 1
chunkOf(toUpdate, w) ==
    [j \in 1..((Len(toUpdate) + 2 - w) \div 2) |-> toUpdate[2 * (j - 1) + w]]

\* the end of a loop turn: the delay when another item follows, the end of
\* the loop otherwise
afterItem(s, w) ==
    IF s.worker[w].i < Len(chunkOf(s.toUpdate, w)) - 1
    THEN [s EXCEPT !.worker[w].pc = "delay"]
    ELSE [s EXCEPT !.worker[w].pc = "done", !.worker[w].i = @ + 1]

InitSync ==
    /\ \E n \in 0..MaxSync :
          sync = [toUpdate |-> [k \in 1..n |-> k],
                  syncCancelled |-> FALSE,
                  completed |-> 0,
                  worker |-> [w \in 1..2 |-> [i |-> 0, pc |-> IF n = 0 THEN "done" ELSE "check"]],
                  attempts |-> [k \in 1..n |-> <<>>],
                  outcome |-> [k \in 1..n |-> "none"],
                  startedCancelled |-> FALSE,
                  recordedCancelled |-> 0,
                  unloaded |-> FALSE,
                  progress |-> <<>>,
                  returned |-> n = 0]
    /\ conv = <<>> /\ bridge = <<>>
    /\ IdleChunk /\ IdlePhantom /\ IdleWire /\ IdleTree /\ IdleText /\ IdleFork

\* mutant: the flag is not looked at
StartItem_unchecked ==
    /\ sync # <<>>
    /\ \E w \in 1..2 :
          /\ sync.worker[w].pc = "check"
          /\ IF sync.worker[w].i >= Len(chunkOf(sync.toUpdate, w))
             THEN sync' = [sync EXCEPT !.worker[w].pc = "done"]
             ELSE LET c == chunkOf(sync.toUpdate, w)[sync.worker[w].i + 1]
                  IN  sync' = [sync EXCEPT !.worker[w].pc = "fetch",
                                           !.attempts[c] = Append(@, w),
                                           !.startedCancelled = @ \/ sync.syncCancelled]
    /\ UNCHANGED <<chunkVars, phantomVars, wireVars, treeVars, textVars, forkVars,
                   conv, bridge>>

\* processChunk 74-81: the loop test, the cancellation test, and the start of
\* conversation.getMessages(true) for the next conversation of the chunk
StartItem ==
    /\ sync # <<>>
    /\ \E w \in 1..2 :
          /\ sync.worker[w].pc = "check"
          /\ IF sync.worker[w].i >= Len(chunkOf(sync.toUpdate, w)) \/ sync.syncCancelled
             THEN sync' = [sync EXCEPT !.worker[w].pc = "done"]
             ELSE LET c == chunkOf(sync.toUpdate, w)[sync.worker[w].i + 1]
                  IN  sync' = [sync EXCEPT !.worker[w].pc = "fetch",
                                           !.attempts[c] = Append(@, w),
                                           !.startedCancelled = @ \/ sync.syncCancelled]
    /\ UNCHANGED <<chunkVars, phantomVars, wireVars, treeVars, textVars, forkVars,
                   conv, bridge>>

\* processChunk 81-82 and 88-91: getMessages answers and setMessages is
\* started, or getMessages fails and the catch counts the conversation
FetchDone ==
    /\ sync # <<>>
    /\ \E w \in 1..2, ok \in BOOLEAN :
          LET c == chunkOf(sync.toUpdate, w)[sync.worker[w].i + 1]
          IN  /\ sync.worker[w].pc = "fetch"
              /\ sync' = IF ok THEN [sync EXCEPT !.worker[w].pc = "store"]
                         ELSE afterItem([sync EXCEPT !.completed = @ + 1,
                                                     !.outcome[c] = "failed",
                                                     !.recordedCancelled =
                                                        IF sync.syncCancelled THEN @ + 1 ELSE @],
                                        w)
    /\ UNCHANGED <<chunkVars, phantomVars, wireVars, treeVars, textVars, forkVars,
                   conv, bridge>>

\* processChunk 82-91: setMessages answers, the conversation is counted and
\* the progress is reported, or setMessages fails and the catch counts it
StoreDone ==
    /\ sync # <<>>
    /\ \E w \in 1..2, ok \in BOOLEAN :
          LET c == chunkOf(sync.toUpdate, w)[sync.worker[w].i + 1]
          IN  /\ sync.worker[w].pc = "store"
              /\ sync' = afterItem([sync EXCEPT
                                       !.completed = @ + 1,
                                       !.outcome[c] = IF ok THEN "stored" ELSE "failed",
                                       !.progress = IF ok THEN Append(@, "Updating") ELSE @,
                                       !.recordedCancelled =
                                          IF sync.syncCancelled THEN @ + 1 ELSE @],
                                    w)
    /\ UNCHANGED <<chunkVars, phantomVars, wireVars, treeVars, textVars, forkVars,
                   conv, bridge>>

\* processChunk 93-96: the rate-limit timer fires, i++
DelayDone ==
    /\ sync # <<>>
    /\ \E w \in 1..2 :
          /\ sync.worker[w].pc = "delay"
          /\ sync' = [sync EXCEPT !.worker[w].pc = "check", !.worker[w].i = @ + 1]
    /\ UNCHANGED <<chunkVars, phantomVars, wireVars, treeVars, textVars, forkVars,
                   conv, bridge>>

\* triggerSync 190-195: the Cancel button of the loading modal sets the flag
\* and asks for a reload of the page
CancelSync ==
    /\ sync # <<>>
    /\ ~sync.returned /\ ~sync.syncCancelled
    /\ sync' = [sync EXCEPT !.syncCancelled = TRUE]
    /\ UNCHANGED <<chunkVars, phantomVars, wireVars, treeVars, textVars, forkVars,
                   conv, bridge>>

\* window.location.reload() (194) takes effect: the page is torn down, and what
\* its workers were awaiting is never resumed
Unload ==
    /\ sync # <<>>
    /\ sync.syncCancelled /\ ~sync.unloaded /\ ~sync.returned
    /\ sync' = [sync EXCEPT !.unloaded = TRUE,
                            !.worker = [w \in 1..2 |-> [@[w] EXCEPT !.pc = "gone"]]]
    /\ UNCHANGED <<chunkVars, phantomVars, wireVars, treeVars, textVars, forkVars,
                   conv, bridge>>

\* syncConversationsIndividually 100-105: Promise.all resolves when both
\* workers have returned; 'Sync complete!' is reported
SyncComplete ==
    /\ sync # <<>>
    /\ ~sync.returned
    /\ \A w \in 1..2 : sync.worker[w].pc = "done"
    /\ sync' = [sync EXCEPT !.returned = TRUE, !.progress = Append(@, "Sync complete!")]
    /\ UNCHANGED <<chunkVars, phantomVars, wireVars, treeVars, textVars, forkVars,
                   conv, bridge>>

NextSync ==
    \/ StartItem \/ FetchDone \/ StoreDone \/ DelayDone \/ CancelSync \/ Unload
    \/ SyncComplete

SpecSync == InitSync /\ [][NextSync]_vars

\* C28: the worklist is split into two interleaved halves such that every
\* conversation is attempted at most once, by the worker of its half; a
\* failing fetch or store does not stop the others; when both workers have
\* finished without cancellation every conversation was attempted exactly
\* once, the completed counter equals the worklist length and completion was
\* reported exactly once.
C28_EachConversationOnce ==
    /\ \A k \in 1..Len(sync.toUpdate) :
          /\ Len(sync.attempts[k]) <= 1
          /\ \A a \in 1..Len(sync.attempts[k]) : sync.attempts[k][a] = 2 - (k % 2)
          /\ sync.outcome[k] # "none" => Len(sync.attempts[k]) = 1
    /\ sync.completed = Cardinality({k \in 1..Len(sync.toUpdate) : sync.outcome[k] # "none"})
    /\ Cardinality({j \in 1..Len(sync.progress) : sync.progress[j] = "Sync complete!"})
          = (IF sync.returned /\ Len(sync.toUpdate) > 0 THEN 1 ELSE 0)
    /\ (sync.returned /\ ~sync.syncCancelled) =>
          /\ \A k \in 1..Len(sync.toUpdate) : Len(sync.attempts[k]) = 1
          /\ sync.completed = Len(sync.toUpdate)

\* four conversations, one fetch and one store failed, both workers finished
C28_Witness ==
    /\ sync.returned /\ ~sync.syncCancelled
    /\ Len(sync.toUpdate) = 4 /\ sync.completed = 4
    /\ Cardinality({k \in 1..4 : sync.outcome[k] = "failed"}) = 2
    /\ sync.outcome[1] = "failed" /\ sync.outcome[3] = "stored"


----------------------------------------------------------------------------
(* Cancellation of the two long-running loops: the sync workers above and  *)
(* the summary loop of the fork flow.                                       *)

SpecCancel == (InitSync \/ InitFork) /\ [][NextSync \/ NextFork]_vars

inSync == sync # <<>>  \* a sync run exists
inFork == pendingFork # <<>>

\* the summary loop is between two iterations
betweenChunks ==
    /\ op = "summarize" /\ tempConversation.inFlight = <<>>
    /\ 0 < Len(summaryTexts) /\ Len(summaryTexts) < Len(chunks)

\* C27 (as claimed): in the sync loop and in the summary loop cancellation
\* takes effect between iterations: it can be requested while the loop runs,
\* once it is requested no further item is started, and an operation in flight
\* at that time finishes and has its result recorded.
C27_CancelBetweenIterations ==
    /\ inSync =>
          /\ ~sync.startedCancelled
          /\ \A k \in 1..Len(sync.toUpdate) :
                (sync.attempts[k] # <<>> /\ \A w \in 1..2 : sync.worker[w].pc \in {"done", "gone"})
                    => sync.outcome[k] # "none"
    /\ (inFork /\ betweenChunks) => ENABLED CancelReview

\* C27 (amended): in the sync loop the flag is polled at the top of every
\* iteration, so no conversation is started once cancellation is requested, and
\* an operation in flight is recorded when it finishes unless the reload of the
\* page has torn the workers down; the summary loop polls nothing: the user
\* can cancel only in the review, after every chunk has been summarized.
C27_SyncPollsFlagOnly ==
    /\ inSync =>
          /\ ~sync.startedCancelled
          /\ \A k \in 1..Len(sync.toUpdate) :
                (sync.attempts[k] # <<>> /\ \A w \in 1..2 : sync.worker[w].pc = "done")
                    => sync.outcome[k] # "none"
          /\ ~sync.syncCancelled => sync.recordedCancelled = 0
    /\ inFork =>
          /\ review = "cancelled" =>
                /\ Len(summaryTexts) = Len(chunks)
                /\ Len(summaryRequests) = Len(chunks)
          /\ op = "summarize" => ~ENABLED CancelReview

\* cancellation was requested while a conversation was being fetched: its
\* result was recorded afterwards, and the conversations after it were not
\* started
C27_Witness ==
    /\ inSync /\ sync.syncCancelled /\ ~sync.unloaded
    /\ Len(sync.toUpdate) = 4
    /\ sync.recordedCancelled = 2
    /\ \A w \in 1..2 : sync.worker[w].pc = "done"
    /\ sync.attempts[3] = <<>> /\ sync.attempts[4] = <<>>


----------------------------------------------------------------------------
(* phantom-messages.js / file-download.js: the read round trips between the *)
(* page and the phantom store.  bridge holds idb (the stored sequence of    *)
(* each conversation id), local (the legacy localStorage entry of each id), *)
(* reads (the calls made so far, each with the state of its promise), gets  *)
(* and stores (GET_PHANTOM_MESSAGES_IDB / STORE_PHANTOM_MESSAGES_IDB        *)
(* messages posted and not yet handled by the other side, named by the call *)
(* that posted them), responses (PHANTOM_MESSAGES_RESPONSE messages posted  *)
(* and not yet delivered) and now (the time in ms, in steps of tickMs).  The other side of the  *)
(* window is the environment: it answers a posted message at any later      *)
(* time, or never.                                                          *)

MaxReads == 2
MaxClock == 3
tickMs == 2500
readTimeout == 5000
ConversationIds == 1..2

phantomSeq(k) == [i \in 1..k |-> PhantomBase + i]

\* getPhantomMessages 66-71: messagesJson ? messagesJson.map(...) : null
resolveMain(messagesJson) ==
    IF messagesJson # None
    THEN [null |-> FALSE, messages |-> messagesJson[1]]
    ELSE [null |-> TRUE, messages |-> <<>>]

\* getPhantomMessagesFromMain 905-911: (event.data.messages || []).map(...)
resolveFromMain(messagesJson) ==
    [null |-> FALSE, messages |-> IF messagesJson # None THEN messagesJson[1] ELSE <<>>]

\* the value the timer resolves the promise with (81, 924)
timeoutDefault(fn) ==
    IF fn = "getPhantomMessages"
    THEN [null |-> TRUE, messages |-> <<>>]
    ELSE [null |-> FALSE, messages |-> <<>>]

unresolved == [null |-> TRUE, messages |-> <<>>]

InitBridge ==
    /\ \E idb \in [ConversationIds -> {None, Some(phantomSeq(1))}],
          legacy \in {None, Some(phantomSeq(2))} :
          bridge = [idb |-> idb,
                    local |-> [c \in ConversationIds |-> IF c = 1 THEN legacy ELSE None],
                    reads |-> <<>>,
                    gets |-> {}, stores |-> {}, responses |-> {},
                    now |-> 0]
    /\ conv = <<>> /\ sync = <<>>
    /\ IdleChunk /\ IdlePhantom /\ IdleWire /\ IdleTree /\ IdleText /\ IdleFork

\* getPhantomMessages 39-84, up to the first await: with a legacy entry the
\* call awaits storePhantomMessages (11-37), which posts the store request and
\* sets no timer; without one it registers its handler, posts the read request
\* and starts the 5 s timer
CallGetPhantomMessages ==
    /\ bridge # <<>> /\ Len(bridge.reads) < MaxReads
    /\ \E c \in ConversationIds :
          LET r == Len(bridge.reads) + 1
              localData == bridge.local[c]
              read == [fn |-> "getPhantomMessages", conversationId |-> c,
                       calledAt |-> bridge.now,
                       state |-> IF localData # None THEN "storing" ELSE "listening",
                       messages |-> IF localData # None THEN localData[1] ELSE <<>>,
                       result |-> unresolved, by |-> "none", of |-> 0, at |-> 0]
          IN  bridge' = [bridge EXCEPT
                            !.reads = Append(@, read),
                            !.stores = IF localData # None THEN @ \cup {r} ELSE @,
                            !.gets = IF localData # None THEN @ ELSE @ \cup {r}]
    /\ UNCHANGED <<chunkVars, phantomVars, wireVars, treeVars, textVars, forkVars,
                   conv, sync>>

\* getPhantomMessagesFromMain 899-927: handler, read request, 5 s timer
CallGetPhantomMessagesFromMain ==
    /\ bridge # <<>> /\ Len(bridge.reads) < MaxReads
    /\ \E c \in ConversationIds :
          LET r == Len(bridge.reads) + 1
              read == [fn |-> "getPhantomMessagesFromMain", conversationId |-> c,
                       calledAt |-> bridge.now, state |-> "listening",
                       messages |-> <<>>,
                       result |-> unresolved, by |-> "none", of |-> 0, at |-> 0]
          IN  bridge' = [bridge EXCEPT !.reads = Append(@, read), !.gets = @ \cup {r}]
    /\ UNCHANGED <<chunkVars, phantomVars, wireVars, treeVars, textVars, forkVars,
                   conv, sync>>

\* the other side handles one read request: it posts the stored sequence of
\* the conversation id, tagged with that id only
Respond ==
    /\ bridge # <<>>
    /\ \E r \in bridge.gets :
          LET c == bridge.reads[r].conversationId
          IN  bridge' = [bridge EXCEPT
                            !.gets = @ \ {r},
                            !.responses = @ \cup {[conversationId |-> c,
                                                   messages |-> bridge.idb[c],
                                                   of |-> r]}]
    /\ UNCHANGED <<chunkVars, phantomVars, wireVars, treeVars, textVars, forkVars,
                   conv, sync>>

\* what a registered handler does with a delivered response (60-73, 901-913)
handled(read, response, now) ==
    IF /\ read.state = "listening"
       /\ response.conversationId = read.conversationId
    THEN [read EXCEPT !.state = "resolved",
                      !.result = IF read.fn = "getPhantomMessages"
                                 THEN resolveMain(response.messages)
                                 ELSE resolveFromMain(response.messages),
                      !.by = "response", !.of = response.of, !.at = now]
    ELSE read

\* a PHANTOM_MESSAGES_RESPONSE message event is dispatched to every handler
\* registered on the window
ResponseDelivered ==
    /\ bridge # <<>>
    /\ \E response \in bridge.responses :
          bridge' = [bridge EXCEPT
                        !.responses = @ \ {response},
                        !.reads = [r \in 1..Len(@) |-> handled(@[r], response, bridge.now)]]
    /\ UNCHANGED <<chunkVars, phantomVars, wireVars, treeVars, textVars, forkVars,
                   conv, sync>>

\* the timer of a read fires (78-82, 921-925): the handler is removed and the
\* promise resolved with the default; on a promise already resolved this has
\* no effect
ReadTimeout ==
    /\ bridge # <<>>
    /\ \E r \in 1..Len(bridge.reads) :
          /\ bridge.reads[r].state = "listening"
          /\ bridge.now >= bridge.reads[r].calledAt + readTimeout
          /\ bridge' = [bridge EXCEPT
                           !.reads[r].state = "resolved",
                           !.reads[r].result = timeoutDefault(bridge.reads[r].fn),
                           !.reads[r].by = "timeout",
                           !.reads[r].at = bridge.now]
    /\ UNCHANGED <<chunkVars, phantomVars, wireVars, treeVars, textVars, forkVars,
                   conv, sync>>

\* what the acknowledgment of a store for conversation id c does to a call
acked(read, c, now) ==
    IF read.state = "storing" /\ read.conversationId = c
    THEN [read EXCEPT !.state = "resolved",
                      !.result = [null |-> FALSE, messages |-> read.messages],
                      !.by = "local", !.at = now]
    ELSE read

\* the other side has stored a migrated sequence and its PHANTOM_MESSAGES_STORED
\* is delivered: every storePhantomMessages handler of that conversation id
\* resolves (14-26), and the getPhantomMessages awaiting it removes the legacy
\* entry and returns the sequence it parsed (51-54)
StoreAcked ==
    /\ bridge # <<>>
    /\ \E s \in bridge.stores :
          LET c == bridge.reads[s].conversationId
          IN  bridge' = [bridge EXCEPT
                            !.stores = @ \ {s},
                            !.idb[c] = Some(bridge.reads[s].messages),
                            !.local[c] = None,
                            !.reads = [r \in 1..Len(@) |-> acked(@[r], c, bridge.now)]]
    /\ UNCHANGED <<chunkVars, phantomVars, wireVars, treeVars, textVars, forkVars,
                   conv, sync>>

\* another flow (import, fork) replaces the stored sequence of a conversation
\* while reads are under way
StoreReplaced ==
    /\ bridge # <<>>
    /\ \E c \in ConversationIds :
          /\ bridge.idb[c] # Some(phantomSeq(2))
          /\ bridge.reads # <<>>
          /\ bridge' = [bridge EXCEPT !.idb[c] = Some(phantomSeq(2))]
    /\ UNCHANGED <<chunkVars, phantomVars, wireVars, treeVars, textVars, forkVars,
                   conv, sync>>

\* the time at which the first timer still running fires, at most t
nextDue(reads, t) ==
    LET due == {reads[r].calledAt + readTimeout :
                   r \in {x \in 1..Len(reads) : reads[x].state = "listening"}}
        sooner == {d \in due : d < t}
    IN  IF sooner = {} THEN t ELSE CHOOSE d \in sooner : \A e \in sooner : d <= e

\* tickMs pass, or less up to the next timer; a timer that is due fires before
\* time goes on
Tick ==
    /\ bridge # <<>>
    /\ bridge.now < MaxClock * tickMs
    /\ \A r \in 1..Len(bridge.reads) :
          bridge.reads[r].state = "listening"
              => bridge.now < bridge.reads[r].calledAt + readTimeout
    /\ bridge' = [bridge EXCEPT !.now = nextDue(bridge.reads, @ + tickMs)]
    /\ UNCHANGED <<chunkVars, phantomVars, wireVars, treeVars, textVars, forkVars,
                   conv, sync>>

NextBridge ==
    \/ CallGetPhantomMessages \/ CallGetPhantomMessagesFromMain
    \/ Respond \/ ResponseDelivered \/ ReadTimeout
    \/ StoreAcked \/ StoreReplaced \/ Tick

SpecBridge == InitBridge /\ [][NextBridge]_vars


\* the calls made so far
readCalls == 1..Len(bridge.reads)

\* C29: a pending phantom read is resolved only by the response to its own
\* request, never by the response produced for another pending request.
C29_OwnResponseOnly ==
    \A r \in readCalls :
        bridge.reads[r].by = "response" => bridge.reads[r].of = r

\* two reads of conversation 1 were pending together; the store was replaced
\* between the two calls; the response to the first call resolved both, the
\* second with the sequence that had been replaced before it was called
C29_Witness ==
    /\ Len(bridge.reads) = 2
    /\ bridge.reads[1].fn = "getPhantomMessages"
    /\ bridge.reads[2].fn = "getPhantomMessagesFromMain"
    /\ \A r \in readCalls :
          /\ bridge.reads[r].conversationId = 1
          /\ bridge.reads[r].by = "response" /\ bridge.reads[r].of = 1
          /\ bridge.reads[r].result.messages = phantomSeq(1)
    /\ bridge.idb[1] = Some(phantomSeq(2))
    /\ 2 \in bridge.gets

\* C30: every phantom read resolves no later than 5 s after it was called,
\* with the sequence of a response that arrived first or else, at the
\* deadline, with its default (null / an empty list); no call stays pending.
C30_ResolvesWithinDeadline ==
    \A r \in readCalls :
        LET read == bridge.reads[r]
        IN  /\ read.state # "resolved" => bridge.now <= read.calledAt + readTimeout
            /\ read.state = "resolved" =>
                  /\ read.at <= read.calledAt + readTimeout
                  /\ \/ read.by = "response"
                     \/ /\ read.by = "timeout"
                        /\ read.at = read.calledAt + readTimeout
                        /\ read.result = timeoutDefault(read.fn)

\* a getPhantomMessages call that found a legacy entry is still awaiting the
\* acknowledgment of its store 7.5 s after it was called
C30_Witness ==
    /\ Len(bridge.reads) >= 1
    /\ bridge.reads[1].fn = "getPhantomMessages"
    /\ bridge.reads[1].state = "storing"
    /\ bridge.reads[1].calledAt = 0
    /\ bridge.now > readTimeout


----------------------------------------------------------------------------
(* The size of the chunks of calculateChunkBoundaries, on longer histories *)
(* whose messages all have the same length.                                *)

MaxBound == 8
\* 10,000 / 12,499 / 15,000 tokens per message
BoundTextChars == {39999, 49996, 60000}

BoundInputs ==
    {[i \in 1..Len(f) |-> ChunkMessage(i, f[i], chars)] :
        f \in SeqsUpTo(ChunkSenders, MaxBound), chars \in BoundTextChars}

InitBound ==
    /\ messages \in BoundInputs
    /\ op = "none" /\ maxTokens = 0 /\ greedy = FALSE
    /\ splitIndex = 0 /\ chunks = <<>> /\ out = <<>> /\ nextUuid = 0
    /\ IdlePhantom /\ IdleWire /\ IdleTree /\ IdleLater

NextBound == PartitionIntoChunks

SpecBound == InitBound /\ [][NextBound]_vars

\* C31: when no message of the input is estimated above LAST_CHUNK_SIZE
\* tokens, no chunk of calculateChunkBoundaries is estimated above
\* 1.5 x MAIN_TARGET_CHUNK tokens.
C31_ChunkAtMostOneAndHalfTarget ==
    (/\ op = "chunk"
     /\ \A i \in 1..Len(messages) : estimateTokens(<<messages[i]>>) <= LAST_CHUNK_SIZE)
        => \A c \in 1..Len(chunks) :
              2 * estimateTokens(chunks[c]) <= 3 * MAIN_TARGET_CHUNK

\* eight alternating messages of 12,499 tokens: the second chunk has four
\* messages and 49,996 tokens
C31_Witness ==
    /\ op = "chunk"
    /\ Len(messages) = 8 /\ alternatesFromHuman(messages)
    /\ \A i \in 1..8 : estimateTokens(<<messages[i]>>) = 12499
    /\ Len(chunks) = 3
    /\ Len(chunks[2]) = 4 /\ estimateTokens(chunks[2]) = 49996
    /\ Len(chunks[1]) = 2 /\ Len(chunks[3]) = 2


----------------------------------------------------------------------------
(* attachFile with its forceAttachmentMode argument, then serialization *)

\* the files handed to attachFile; a new ClaudeCodeExecutionFile has
\* force_attachment_mode = false
AttachableFiles ==
    { ClaudeAttachment("added.txt", Content(10, {})),
      ClaudeFile(41, "added.txt", "document"),
      ClaudeCodeExecutionFile(42, "added.txt", "document", "/mnt/user-data/uploads/added.txt",
                              None, FALSE),
      ClaudeCodeExecutionFile(43, "added.txt", "document", "/mnt/user-data/uploads/added.txt",
                              Some(Content(ATTACHMENT_CHAR_LIMIT, {})), FALSE),
      ClaudeCodeExecutionFile(44, "added.txt", "document", "/mnt/user-data/uploads/added.txt",
                              Some(Content(ATTACHMENT_CHAR_LIMIT + 1, {})), FALSE) }

\* attachFile(fileObj, forceAttachmentMode): the files of the message after it
attachFile(files, fileObj, forceAttachmentMode) ==
    Append(files,
           IF forceAttachmentMode # None /\ fileObj.cls = "ClaudeCodeExecutionFile"
           THEN [fileObj EXCEPT !.force_attachment_mode = forceAttachmentMode[1]]
           ELSE fileObj)

\* msg.attachFile(fileObj, forceAttachmentMode) with null, true or false
AttachFile ==
    /\ op = "none"
    /\ \E fileObj \in AttachableFiles, forceAttachmentMode \in {None, Some(TRUE), Some(FALSE)} :
          /\ msg' = [msg EXCEPT !.files = attachFile(@, fileObj, forceAttachmentMode)]
          /\ rehomed' = [via |-> "attachFile", source |-> fileObj,
                         forceAttachmentMode |-> forceAttachmentMode]
    /\ op' = "attached"
    /\ UNCHANGED <<restored, completion, messages, maxTokens, greedy, splitIndex,
                   chunks, out, nextUuid, phantomVars, treeVars, laterVars>>

\* msg.toHistoryJSON()
SerializeHistory ==
    /\ op = "attached"
    /\ restored' = toHistoryJSON(msg)
    /\ op' = "serialized"
    /\ UNCHANGED <<msg, completion, rehomed, messages, maxTokens, greedy, splitIndex,
                   chunks, out, nextUuid, phantomVars, treeVars, laterVars>>

NextAttach == AttachFile \/ SerializeHistory

SpecAttach == InitWire /\ [][NextAttach]_vars

\* how many entries of a serialized array carry the name of the attached file
namedAdded(array) ==
    Cardinality({i \in 1..Len(array) : array[i].file_name = "added.txt"})

\* the attached file is a sandbox file with extracted text
addedSandboxText ==
    /\ rehomed.source.cls = "ClaudeCodeExecutionFile"
    /\ rehomed.source.extracted_content # None

\* C33: a sandbox file with extracted text is serialized as an inline
\* attachment only, or as a file reference only: inline when it was attached
\* with forceAttachmentMode = true, a reference when attached with false, and
\* by its length (at most 15,000 characters: inline) when attached without
\* override; every file of the message is in exactly one of the two arrays.
C33_OverrideDecidesInline ==
    op = "serialized" =>
        /\ Len(restored.attachments) + Len(restored.files_v2) = Len(msg.files)
        /\ namedAdded(restored.attachments) + namedAdded(restored.files_v2) = 1
        /\ addedSandboxText =>
              LET inline == IF rehomed.forceAttachmentMode # None
                            THEN rehomed.forceAttachmentMode[1]
                            ELSE rehomed.source.extracted_content[1].len
                                    <= ATTACHMENT_CHAR_LIMIT
              IN  namedAdded(restored.attachments) = (IF inline THEN 1 ELSE 0)

\* a sandbox file with 15,000 characters of text was attached with
\* forceAttachmentMode = false and is serialized as an inline attachment
C33_Witness ==
    /\ op = "serialized"
    /\ addedSandboxText
    /\ rehomed.source.extracted_content[1].len = ATTACHMENT_CHAR_LIMIT
    /\ rehomed.forceAttachmentMode = Some(FALSE)
    /\ namedAdded(restored.attachments) = 1
    /\ namedAdded(restored.files_v2) = 0


----------------------------------------------------------------------------
(* handleImport on a tagged-text file: parse, the warnings modal, and       *)
(* finalizeImport.  completion.requests lists the remote calls made         *)
(* ("create" for conversation.create), phantomStore the stored sequence.    *)

MaxLines == 5

\* the lines a file is made of: role tags, a text tag, a tag of a JSON block,
\* a line that is no JSON, a line that is the JSON of a block
ImportLines ==
    { TagLine("User", "", None), TagLine("Assistant", "", None),
      TagLine("content", "text", None), TagLine("content", "tool_use", None),
      TextLine("hi"),
      Line("{json}", FALSE, "", None, Some([type |-> "tool_use", text |-> None, input |-> 7])) }

\* files with and without a header line, ending in "\n"
ImportFiles ==
    {header \o body \o <<TextLine("")>> :
        header \in {<<>>, <<TextLine("Title: name")>>},
        body \in SeqsUpTo(ImportLines, MaxLines)}

InitImport ==
    /\ exported \in ImportFiles
    /\ imported = <<>>
    /\ op = "file"
    /\ completion = [requests |-> <<>>, error |-> None]
    /\ msg = <<>> /\ restored = <<>> /\ rehomed = <<>>
    /\ messages = <<>> /\ maxTokens = 0 /\ greedy = FALSE /\ splitIndex = 0
    /\ chunks = <<>> /\ out = <<>> /\ nextUuid = FreshBase
    /\ IdlePhantom /\ IdleTree /\ IdleFork /\ IdleAsync

\* mutant: the error of the parser is not looked at
ParseImport_ignoreError ==
    /\ op = "file"
    /\ imported' = <<parseAndValidateText(exported)>>
    /\ op' = "parsed"
    /\ UNCHANGED <<messages, maxTokens, greedy, splitIndex, chunks, out, nextUuid,
                   phantomVars, wireVars, treeVars, exported, forkVars, asyncVars>>

\* handleImport 945-981: the file is parsed; a throw of the parser is shown as
\* an alert and ends the handler
ParseImport ==
    /\ op = "file"
    /\ imported' = <<parseAndValidateText(exported)>>
    /\ op' = IF parseAndValidateText(exported).ok THEN "parsed" ELSE "importError"
    /\ UNCHANGED <<messages, maxTokens, greedy, splitIndex, chunks, out, nextUuid,
                   phantomVars, wireVars, treeVars, exported, forkVars, asyncVars>>

\* handleImport 1003-1009: with warnings, the user is asked whether to proceed
WarningsModal ==
    /\ op = "parsed" /\ imported[1].warnings > 0
    /\ \E proceed \in BOOLEAN :
          /\ imported' = Append(imported, [proceed |-> proceed])
          /\ op' = IF proceed THEN "proceed" ELSE "declined"
    /\ UNCHANGED <<messages, maxTokens, greedy, splitIndex, chunks, out, nextUuid,
                   phantomVars, wireVars, treeVars, exported, forkVars, asyncVars>>

\* handleImport 1012-1019 / finalizeImport 620-689 without zip files: the
\* conversation is created (or the creation fails); then the loop at 651 reads
\* the undeclared name tmessages, and the ReferenceError ends finalizeImport
\* before the import message is sent and the phantom sequence stored
FinalizeImport ==
    /\ \/ op = "parsed" /\ imported[1].warnings = 0
       \/ op = "proceed"
    /\ \E created \in BOOLEAN :
          completion' = [requests |-> <<"create">>,
                         error |-> Some(IF created THEN "tmessages is not defined"
                                        ELSE "Failed to create conversation")]
    /\ op' = "finalize"
    /\ UNCHANGED <<messages, maxTokens, greedy, splitIndex, chunks, out, nextUuid,
                   phantomVars, msg, restored, rehomed, treeVars, exported, imported,
                   forkVars, asyncVars>>

NextImport == ParseImport \/ WarningsModal \/ FinalizeImport

SpecImport == InitImport /\ [][NextImport]_vars

noImportEffect == completion.requests = <<>> /\ phantomStore = <<>>

\* C34 (as claimed): after any parse failure, of the file or of a single
\* block, the import makes no remote call and stores nothing.
C34_AnyParseFailureAborts ==
    (imported # <<>> /\ (~imported[1].ok \/ imported[1].warnings > 0)) => noImportEffect

\* C34 (amended): a throw of the parser ends the import without any remote
\* call or stored sequence; a block whose JSON cannot be parsed is a warning:
\* the import ends without effect when the user declines, and goes on without
\* that block only after the user has chosen to proceed.
C34_ThrowAbortsWarningAsks ==
    /\ (imported # <<>> /\ ~imported[1].ok) => (op = "importError" /\ noImportEffect)
    /\ op \in {"file", "parsed", "proceed", "declined", "importError"} => noImportEffect
    /\ op = "finalize" =>
          /\ imported[1].ok
          /\ imported[1].warnings > 0 => (Len(imported) = 2 /\ imported[2].proceed)

\* a user message with a text and a tool_use block that is no JSON: the block
\* was left out with a warning, the user proceeded, the conversation was made
C34_Witness ==
    /\ op = "finalize"
    /\ exported = <<TextLine("Title: name"), TagLine("User", "", None),
                    TagLine("content", "text", None), TextLine("hi"),
                    TagLine("content", "tool_use", None), TextLine("hi"), TextLine("")>>
    /\ imported[1].warnings = 1
    /\ Len(imported[1].messages) = 1
    /\ Len(imported[1].messages[1].content) = 1
    /\ completion.requests = <<"create">>

\* the role tags of a file, in order
roleTags(lines) == SelectSeq(lines, LAMBDA l : l.tag /\ l.s \in {"User", "Assistant"})

\* a tag that is no role tag stands before the first role tag
tagBeforeRole(lines) ==
    \E i \in 1..Len(lines) :
        /\ lines[i].tag /\ lines[i].s \notin {"User", "Assistant"}
        /\ \A k \in 1..(i - 1) : ~(lines[k].tag /\ lines[k].s \in {"User", "Assistant"})

\* C35: parseAndValidateText throws, and returns no messages, when two
\* consecutive role tags of the file name the same role, when a content or
\* file tag precedes the first role tag, and when the file has no role tag.
C35_MalformedTagsRejected ==
    (imported # <<>> /\
       \/ \E i \in 1..(Len(roleTags(exported)) - 1) :
              roleTags(exported)[i].s = roleTags(exported)[i + 1].s
       \/ tagBeforeRole(exported)
       \/ roleTags(exported) = <<>>)
        => (~imported[1].ok /\ imported[1].messages = <<>>)

\* a file without header whose two role tags are both [User]: it is parsed
\* without error into one message
C35_Witness ==
    /\ exported = <<TagLine("User", "", None), TextLine("hi"),
                    TagLine("User", "", None), TagLine("content", "text", None),
                    TextLine("hi"), TextLine("")>>
    /\ imported # <<>> /\ imported[1].ok
    /\ Len(imported[1].messages) = 1


----------------------------------------------------------------------------
(* The overlay read on phantom messages of several content blocks           *)
(* (phantom-messages.js: the read interceptor, injectPhantomMessages,       *)
(* injectUUIDMarkers).                                                       *)

OverlayContents ==
    { <<TextBlock(Str("old", 10))>>,
      <<TextBlock(Str("old", 10)), TextBlock(Str("more", 10))>>,
      <<TextBlock(Str("old", 10)), ToolBlock("tool_use")>> }

OverlayInputs ==
    {[i \in 1..Len(f) |->
         Json(PhantomBase + i, IF i = 1 THEN ROOT ELSE PhantomBase + i - 1, f[i], i - 1,
              c[i])] :
        f \in SeqsUpTo(ChunkSenders, MaxPhantom), c \in [1..MaxPhantom -> OverlayContents]}

InitOverlay ==
    /\ phantomStore \in OverlayInputs
    /\ chat_messages \in RealInputs
    /\ lastRead = [chat_messages |-> <<>>, phantomCount |-> 0, next |-> 0]
    /\ forwarded = <<>>
    /\ timedOut = FALSE
    /\ messages = <<>> /\ op = "none" /\ maxTokens = 0 /\ greedy = FALSE
    /\ splitIndex = 0 /\ chunks = <<>> /\ out = <<>> /\ nextUuid = 0
    /\ IdleWire /\ IdleTree /\ IdleLater

SpecOverlay == InitOverlay /\ [][NextPhantom]_vars

\* how often the phantom marker occurs in a text
markerCount(t) == Cardinality({k \in 1..Len(t) : t[k] = PHANTOM_MARKER[1]})

\* the text ends with the phantom marker
endsWithMarker(t) == Len(t) > 0 /\ t[Len(t)] = PHANTOM_MARKER[1]

\* the text ends with the phantom marker followed by the uuid marker
endsWithMarkerThenUuid(t, uuid) ==
    /\ Len(t) > 3
    /\ SubSeq(t, Len(t) - 2, Len(t)) = PHANTOM_MARKER \o NL2 \o UuidMarker(uuid)

\* the seam of the last read: the last spliced phantom is assistant-sent, and
\* an acknowledgment was appended exactly when the last stored one is human
seamAlternates ==
    LET L == lastRead.chat_messages
        np == lastRead.phantomCount
        P == phantomStore
    IN  /\ L[np].sender = "assistant"
        /\ np = Len(P) + (IF P[Len(P)].sender = "human" THEN 1 ELSE 0)
        /\ (P[Len(P)].sender = "human" =>
               L[np].parent_message_uuid = P[Len(P)].uuid)

\* C36 as stated: after an overlay read with a non-empty stored phantom
\* sequence the last spliced phantom message is assistant-sent (an
\* acknowledgment appended exactly when the last stored phantom is
\* human-sent), and every text block of every spliced phantom message ends
\* with the phantom marker, which occurs in it exactly once, however many
\* reads preceded.
C36_EveryBlockEndsWithMarker ==
    (op = "read" /\ lastRead.phantomCount > 0) =>
        /\ seamAlternates
        /\ \A i \in 1..lastRead.phantomCount :
             LET m == lastRead.chat_messages[i]
             IN  \A k \in 1..Len(m.content) :
                    m.content[k].text # None =>
                       /\ markerCount(m.content[k].text[1]) = 1
                       /\ endsWithMarker(m.content[k].text[1])

\* C36 amended: the seam is as stated and every text block of every spliced
\* phantom message holds the phantom marker exactly once; the marker ends the
\* block, except in the last text block of an assistant-sent phantom message
\* (the acknowledgment included), where the uuid marker of the message
\* follows it.  A read whose phantom lookup did not time out splices every
\* non-empty stored sequence.
C36_MarkerOnceUuidAfterIt ==
    /\ (op = "read" /\ ~timedOut /\ phantomStore # <<>>) => lastRead.phantomCount > 0
    /\ (op = "read" /\ lastRead.phantomCount > 0) =>
        /\ seamAlternates
        /\ \A i \in 1..lastRead.phantomCount :
             LET m == lastRead.chat_messages[i]
             IN  \A k \in 1..Len(m.content) :
                    m.content[k].text # None =>
                       /\ markerCount(m.content[k].text[1]) = 1
                       /\ IF m.sender # "human" /\ k = lastTextIndex(m.content)
                          THEN endsWithMarkerThenUuid(m.content[k].text[1], m.uuid)
                          ELSE endsWithMarker(m.content[k].text[1])

\* the second read of a stored sequence (assistant of two text blocks, then
\* human): the acknowledgment is spliced again, three phantom messages in all
C36_Witness ==
    /\ op = "read" /\ nextUuid = 2
    /\ Len(phantomStore) = 2
    /\ phantomStore[1].sender = "assistant" /\ Len(phantomStore[1].content) = 2
    /\ phantomStore[1].content[2].text # None
    /\ phantomStore[2].sender = "human"
    /\ lastRead.phantomCount = 3
    /\ lastRead.chat_messages[3].uuid = FreshBase + 1
    /\ endsWithMarker(lastRead.chat_messages[1].content[1].text[1])
    /\ endsWithMarkerThenUuid(lastRead.chat_messages[1].content[2].text[1],
                              phantomStore[1].uuid)

----------------------------------------------------------------------------
(* GDPR batch queue (global-search.js 212-271).  sync holds the module      *)
(* state: gdprBatchQueue, gdprProcessing and the two counters; loops is the *)
(* set of processBatchQueue activations suspended at an await; arrived      *)
(* counts the GDPR_BATCH messages received, processed lists the batches in  *)
(* the order their for-loop was completed, stored the setMessages calls.    *)
(* A batch is [id, size, total]: its arrival number, message.batch.length   *)
(* and message.total.                                                        *)

MaxBatches == 3         \* most GDPR_BATCH messages of one run
MaxBatchSize == 2       \* most conversations in one batch
GdprTotals == {2, 4}    \* values of message.total

\* mutant: the listener starts a loop for every message
startsLoop_always(gdprProcessing) == TRUE

\* if (!gdprProcessing) processBatchQueue()
startsLoop(gdprProcessing) == ~gdprProcessing

\* the end of one batch: the counters are reset when every conversation of
\* the export has been counted
batchDone(s, message) ==
    [s EXCEPT !.processed = Append(@, message.id),
              !.gdprProcessedConversations =
                  IF @ >= s.gdprTotalConversations THEN 0 ELSE @,
              !.gdprTotalConversations =
                  IF s.gdprProcessedConversations >= @ THEN 0 ELSE @]

RECURSIVE forLoop(_, _, _)
RECURSIVE whileLoop(_)

\* the for loop over message.batch with i conversations done: it suspends at
\* the next await, or ends the batch and goes back to the while condition
forLoop(s, message, i) ==
    IF i < message.size
    THEN [s EXCEPT !.loops = @ \cup {[message |-> message, i |-> i, pc |-> "getMetadata"]}]
    ELSE whileLoop(batchDone(s, message))

\* while (gdprBatchQueue.length > 0) { shift ... }  gdprProcessing = false
whileLoop(s) ==
    IF Len(s.gdprBatchQueue) > 0
    THEN forLoop([s EXCEPT !.gdprBatchQueue = Tail(@)], Head(s.gdprBatchQueue), 0)
    ELSE [s EXCEPT !.gdprProcessing = FALSE]

\* processBatchQueue(), run up to its first await
processBatchQueue(s) == whileLoop([s EXCEPT !.gdprProcessing = TRUE])

InitGdpr ==
    /\ sync = [gdprBatchQueue |-> <<>>, gdprProcessing |-> FALSE,
               gdprProcessedConversations |-> 0, gdprTotalConversations |-> 0,
               loops |-> {}, arrived |-> 0, processed |-> <<>>, stored |-> <<>>]
    /\ conv = <<>> /\ bridge = <<>>
    /\ IdleChunk /\ IdlePhantom /\ IdleWire /\ IdleTree /\ IdleText /\ IdleFork

\* chrome.runtime.onMessage with message.type === 'GDPR_BATCH'
OnGdprBatch ==
    /\ sync.arrived < MaxBatches
    /\ \E size \in 0..MaxBatchSize, total \in GdprTotals :
         LET message == [id |-> sync.arrived + 1, size |-> size, total |-> total]
             pushed == [sync EXCEPT !.gdprBatchQueue = Append(@, message),
                                    !.gdprTotalConversations = total,
                                    !.arrived = @ + 1]
         IN  sync' = IF startsLoop(pushed.gdprProcessing)
                     THEN processBatchQueue(pushed) ELSE pushed
    /\ UNCHANGED <<chunkVars, phantomVars, wireVars, treeVars, textVars, forkVars,
                   conv, bridge>>

\* the conversation counted (in the try or in the catch), then the next one
counted(s, loop) ==
    forLoop([s EXCEPT !.loops = @ \ {loop},
                      !.gdprProcessedConversations = @ + 1],
            loop.message, loop.i + 1)

\* await searchDB.getMetadata(conv.uuid) settles: with the metadata, with
\* nothing, or rejected
GetMetadataSettles ==
    /\ \E loop \in sync.loops, outcome \in {"found", "none", "error"} :
         /\ loop.pc = "getMetadata"
         /\ sync' = IF outcome = "found"
                    THEN [sync EXCEPT !.loops =
                             (@ \ {loop}) \cup {[loop EXCEPT !.pc = "setMessages"]}]
                    ELSE counted(sync, loop)
    /\ UNCHANGED <<chunkVars, phantomVars, wireVars, treeVars, textVars, forkVars,
                   conv, bridge>>

\* await searchDB.setMessages(conv.uuid, conv.chat_messages) settles
SetMessagesSettles ==
    /\ \E loop \in sync.loops, ok \in BOOLEAN :
         /\ loop.pc = "setMessages"
         /\ sync' = counted([sync EXCEPT !.stored =
                                IF ok THEN Append(@, <<loop.message.id, loop.i + 1>>)
                                ELSE @],
                            loop)
    /\ UNCHANGED <<chunkVars, phantomVars, wireVars, treeVars, textVars, forkVars,
                   conv, bridge>>

NextGdpr == OnGdprBatch \/ GetMetadataSettles \/ SetMessagesSettles

\* every IndexedDB request settles
SpecGdpr ==
    /\ InitGdpr /\ [][NextGdpr]_vars
    /\ WF_vars(GetMetadataSettles) /\ WF_vars(SetMessagesSettles)

\* one loop at most, the flag set exactly while it is active, and the
\* batches completed, in work and queued are the arrivals in their order
gdprInOrder ==
    /\ Cardinality(sync.loops) <= 1
    /\ sync.gdprProcessing = (sync.loops # {})
    /\ (sync.loops = {} => sync.gdprBatchQueue = <<>>)
    /\ LET inWork == IF sync.loops = {} THEN <<>>
                     ELSE <<(CHOOSE l \in sync.loops : TRUE).message.id>>
           ids == sync.processed \o inWork
                    \o [k \in 1..Len(sync.gdprBatchQueue) |-> sync.gdprBatchQueue[k].id]
       IN  ids = [k \in 1..sync.arrived |-> k]
    /\ \A a, b \in 1..Len(sync.stored) :
          a < b => \/ sync.stored[a][1] < sync.stored[b][1]
                   \/ /\ sync.stored[a][1] = sync.stored[b][1]
                      /\ sync.stored[a][2] < sync.stored[b][2]

\* C37: at any time at most one processBatchQueue loop is active, batches are
\* processed in arrival order, the processing flag is cleared when the loop
\* ends on the empty queue, and every batch that arrives (also one arriving
\* while another is processed, or as the queue drains) is eventually
\* processed.
C37_OneLoopFifoAllProcessed ==
    /\ [](gdprInOrder)
    /\ \A k \in 1..MaxBatches :
          (sync.arrived >= k) ~> (Len(sync.processed) >= k /\ sync.processed[k] = k)

\* three batches: the second arrived while the first was at its second
\* conversation, the third after the loop had ended; all are processed, the
\* flag is clear
C37_Witness ==
    /\ sync.arrived = 3 /\ sync.processed = <<1, 2, 3>>
    /\ sync.loops = {} /\ ~sync.gdprProcessing
    /\ sync.stored = <<<<1, 1>>, <<1, 2>>, <<2, 1>>, <<3, 1>>>>

----------------------------------------------------------------------------
(* The tree walks, one loop iteration or one call at a time, on message     *)
(* sets whose parent links may hold a cycle or name no message              *)
(* (claude-api.js findLongestLeaf; part_002 parseRawClaudeJson and          *)
(* extractLinearBranch; part_004 buildBookmarkTree).  branch holds the      *)
(* running walk: which walk it is, its loop variable (current or tempId),   *)
(* the call stack of findLongestLeaf as frames [id, k] with k children      *)
(* visited, the number of iterations made and its parity (turn), and       *)
(* whether it has ended.                                                     *)

MaxWalk == 3            \* most messages of a walked message set
MaxSteps == 5           \* the iteration count stops counting here
MaxStack == 5           \* call depth at which the engine raises a RangeError

Walks == {"findLongestLeaf", "parseRawClaudeJson", "extractLinearBranch",
          "parentBookmark", "bookmarkDepth"}

\* uuids 1..n are the messages, n + 1 names no message; bookmarks are the
\* bookmarked uuids of the conversation
InitWalk ==
    /\ \E n \in 0..MaxWalk :
         \E parents \in [1..n -> 0..(n + 1)], bookmarkUuids \in SUBSET (1..n) :
            /\ conversationData = [i \in 1..n |-> TreeMessage(i, parents[i], 1)]
            /\ branch = [walk |-> "none", current |-> None, stack |-> <<>>,
                         steps |-> 0, turn |-> 0, pc |-> "idle", bookmarkUuids |-> bookmarkUuids]
    /\ longest = <<>> /\ current_leaf_message_uuid = ROOT /\ rawImport = <<>>
    /\ messages = <<>> /\ op = "none" /\ maxTokens = 0 /\ greedy = FALSE
    /\ splitIndex = 0 /\ chunks = <<>> /\ out = <<>> /\ nextUuid = 0
    /\ IdlePhantom /\ IdleWire /\ IdleLater

walkUnchanged ==
    /\ UNCHANGED <<conversationData, longest, current_leaf_message_uuid, rawImport>>
    /\ UNCHANGED <<messages, maxTokens, greedy, splitIndex, chunks, out, nextUuid,
                   phantomVars, wireVars, laterVars>>

\* messageMap.get(id)?.parent_message_uuid
parentOf(ms, id) ==
    LET m == messageMapGet(ms, id)
    IN  IF m = None THEN None ELSE Some(m[1].parent_message_uuid)

\* a loop variable that is undefined, or the root uuid where the loop tests it
ended(walk, current) ==
    \/ current = None
    \/ walk \in {"parentBookmark", "bookmarkDepth"} /\ current[1] = ROOT

\* the walk is entered: current (or tempId, or the first frame) is set
StartWalk ==
    /\ op = "none"
    /\ \E walk \in Walks, start \in 1..(Len(conversationData) + 1) :
         LET ms == conversationData
             current ==
                CASE walk = "parseRawClaudeJson" ->
                        IF messageMapGet(ms, start) = None THEN None ELSE Some(start)
                  [] walk = "extractLinearBranch" ->
                        IF ms = <<>> THEN None ELSE Some(ms[Len(ms)].uuid)
                  [] walk = "parentBookmark" -> parentOf(ms, start)
                  [] walk = "bookmarkDepth" -> Some(start)
                  [] OTHER -> None
         IN  /\ walk \in {"parentBookmark", "bookmarkDepth"} =>
                   start \in branch.bookmarkUuids
             /\ branch' = [branch EXCEPT
                   !.walk = walk, !.current = current,
                   !.stack = IF walk = "findLongestLeaf"
                             THEN <<[id |-> start, k |-> 0]>> ELSE <<>>,
                   !.pc = IF walk # "findLongestLeaf" /\ ended(walk, current)
                          THEN "done" ELSE "walking"]
             /\ op' = walk
    /\ walkUnchanged

stepped(n) == IF n < MaxSteps THEN n + 1 ELSE n

\* one iteration of while (current) in parseRawClaudeJson or
\* extractLinearBranch: unshift, stop at the root, else go to the parent
LeafToRootStep ==
    /\ branch.walk \in {"parseRawClaudeJson", "extractLinearBranch"}
    /\ branch.pc = "walking"
    /\ LET parentId == parentOf(conversationData, branch.current[1])[1]
           next == IF parentId = ROOT \/ messageMapGet(conversationData, parentId) = None
                   THEN None ELSE Some(parentId)
       IN  branch' = [branch EXCEPT !.current = next,
                                    !.steps = stepped(@), !.turn = 1 - @,
                                    !.pc = IF next = None THEN "done" ELSE "walking"]
    /\ UNCHANGED op
    /\ walkUnchanged

\* one iteration of while (tempId && tempId !== ROOT_UUID) in
\* buildBookmarkTree: the search for the parent bookmark stops at a
\* bookmarked uuid, the depth count does not
BookmarkStep ==
    /\ branch.walk \in {"parentBookmark", "bookmarkDepth"}
    /\ branch.pc = "walking"
    /\ LET tempId == branch.current[1]
           found == branch.walk = "parentBookmark" /\ tempId \in branch.bookmarkUuids
           next == parentOf(conversationData, tempId)
       IN  branch' = [branch EXCEPT
                         !.current = IF found THEN @ ELSE next,
                         !.steps = stepped(@), !.turn = 1 - @,
                         !.pc = IF found \/ ended(branch.walk, next)
                                THEN "done" ELSE "walking"]
    /\ UNCHANGED op
    /\ walkUnchanged

\* findLongestLeaf: the frame on top calls itself for its next child, or
\* returns when it has none left; the engine ends the recursion at its limit
LongestLeafStep ==
    /\ branch.walk = "findLongestLeaf"
    /\ branch.pc = "walking"
    /\ LET top == branch.stack[Len(branch.stack)]
           children == childrenOf(conversationData, top.id)
           below == SubSeq(branch.stack, 1, Len(branch.stack) - 1)
       IN  branch' =
             IF top.k < Len(children)
             THEN IF Len(branch.stack) = MaxStack
                  THEN [branch EXCEPT !.pc = "RangeError", !.steps = stepped(@), !.turn = 1 - @]
                  ELSE [branch EXCEPT
                          !.stack = below \o <<[top EXCEPT !.k = @ + 1],
                                               [id |-> children[top.k + 1].uuid, k |-> 0]>>,
                          !.steps = stepped(@), !.turn = 1 - @]
             ELSE [branch EXCEPT !.stack = below,
                                 !.steps = stepped(@), !.turn = 1 - @,
                                 !.pc = IF below = <<>> THEN "done" ELSE "walking"]
    /\ UNCHANGED op
    /\ walkUnchanged

NextWalk == StartWalk \/ LeafToRootStep \/ BookmarkStep \/ LongestLeafStep

\* a walk that can make a step makes it
SpecWalk ==
    /\ InitWalk /\ [][NextWalk]_vars
    /\ WF_vars(LeafToRootStep) /\ WF_vars(BookmarkStep) /\ WF_vars(LongestLeafStep)

\* following parent links from uuid comes back to a uuid already passed
RECURSIVE inCycle(_, _, _)
inCycle(ms, uuid, fuel) ==
    IF fuel = 0 THEN TRUE
    ELSE LET p == parentOf(ms, uuid)
         IN  IF p = None THEN FALSE ELSE inCycle(ms, p[1], fuel - 1)

\* C38 as stated: every tree walk that is started ends, whatever the parent
\* links of the finite message set (cycles and dangling references included):
\* findLongestLeaf from any start, the leaf-to-root walks of the raw-format
\* and third-party imports, and the two ancestor walks of buildBookmarkTree.
\* A RangeError raised by the recursion limit counts as an end.
C38_EveryWalkTerminates ==
    (op # "none") ~> (branch.pc \in {"done", "RangeError"})

\* the third-party walk in a cycle of two messages: more iterations made
\* than there are messages, and the loop still running
C38_Witness ==
    /\ op = "extractLinearBranch"
    /\ Len(conversationData) = 2
    /\ conversationData[1].parent_message_uuid = 2
    /\ conversationData[2].parent_message_uuid = 1
    /\ branch.steps > Len(conversationData)
    /\ branch.pc = "walking"

----------------------------------------------------------------------------
(* normalizeOversizedMessages on one message whose files are drawn from     *)
(* attachments below, at and above the split limit, with line breaks on     *)
(* both sides of the places the split looks at, and a hosted file.          *)

MaxSplitFiles == 2      \* most files of the message

SplitContents ==
    {Content(0, {}), Content(20000, {})}
      \cup {Content(60001, nl) : nl \in SUBSET {30001, 60000}}
      \cup {Content(130000, nl) : nl \in SUBSET {30001, 60000, 100000}}

SplitFiles ==
    {ClaudeAttachment(FileName("a", 0), c) : c \in SplitContents}
      \cup {ClaudeFile(7, FileName("img", 0), "image")}

InitSplit ==
    /\ \E sender \in ChunkSenders, text \in NormTexts,
          files \in SeqsUpTo(SplitFiles, MaxSplitFiles) :
          messages = <<NormMessage(1, sender, text, files)>>
    /\ op = "none" /\ maxTokens = 0 /\ greedy = FALSE
    /\ splitIndex = 0 /\ chunks = <<>> /\ out = <<>> /\ nextUuid = 0
    /\ IdlePhantom /\ IdleWire /\ IdleTree /\ IdleLater

NextSplit == SplitOversized

SpecSplit == InitSplit /\ [][NextSplit]_vars

\* a + b on contents
concat(a, b) == Content(a.len + b.len, a.nl \cup {p + a.len : p \in b.nl})

RECURSIVE concatAll(_)
concatAll(parts) ==
    IF parts = <<>> THEN Content(0, {})
    ELSE concat(Head(parts).extracted_content, concatAll(Tail(parts)))

\* the parts of one attachment: never empty when split, named _part1, _part2,
\* ... in order, and their contents concatenated give the content back
partsRejoin(attachment) ==
    LET parts == splitOversizedAttachment(attachment)
    IN  /\ concatAll(parts) = attachment.extracted_content
        /\ Len(parts) >= 1
        /\ Len(parts) > 1 =>
              \A j \in 1..Len(parts) :
                 /\ parts[j].extracted_content.len >= 1
                 /\ parts[j].file_name = FileName(attachment.file_name.name, j)

\* the bin messages among the messages the original was turned into
binMessages(m) == SelectSeq(out, LAMBDA o : o.sender = m.sender)

\* C39: splitOversizedAttachment ends and the contents of its parts, joined
\* in _partN order, are the original extracted content; over the bin messages
\* made by normalizeOversizedMessages every (sub-)attachment of the original
\* message occurs exactly once and in the original order, and the first bin
\* message keeps the original content blocks and all non-attachment files.
C39_SplitLosesNothing ==
    op = "normalize" =>
        LET m == messages[1]
            atts == msgAttachmentsOf(m)
            bins == binMessages(m)
        IN  /\ \A i \in 1..Len(atts) : partsRejoin(attachmentToApi(atts[i]))
            /\ IF needsSplit(m)
               THEN /\ Len(bins) >= 1
                    /\ Flatten([b \in 1..Len(bins) |-> msgAttachmentsOf(bins[b])])
                          = fromJSONAttachments(processedAttachmentsOf(m))
                    /\ concatAll([j \in 1..Len(processedAttachmentsOf(m)) |->
                                     processedAttachmentsOf(m)[j]])
                          = concatAll([i \in 1..Len(atts) |-> attachmentToApi(atts[i])])
                    /\ bins[1].content = m.content
                    /\ msgNonAttachmentsOf(bins[1]) = msgNonAttachmentsOf(m)
                    /\ \A b \in 2..Len(bins) : msgNonAttachmentsOf(bins[b]) = <<>>
                    /\ \A j \in 1..Len(out) :
                          out[j].sender # m.sender => out[j].files = <<>>
               ELSE out = <<m>>

\* a hosted file and an attachment of 130,000 characters, split after the
\* line break at 60,000 into parts of 60,001, 60,000 and 9,999 characters:
\* three bins, the hosted file and the first part in the first
C39_Witness ==
    /\ op = "normalize"
    /\ Len(messages[1].files) = 2
    /\ messages[1].files[1].cls = "ClaudeFile"
    /\ messages[1].files[2].extracted_content = Some(Content(130000, {60000}))
    /\ Len(processedAttachmentsOf(messages[1])) = 3
    /\ processedAttachmentsOf(messages[1])[1].extracted_content = Content(60001, {60000})
    /\ processedAttachmentsOf(messages[1])[3].extracted_content.len = 9999
    /\ Len(binMessages(messages[1])) = 3
    /\ Len(binMessages(messages[1])[1].files) = 2
    /\ Len(binMessages(messages[1])[3].files) = 1

----------------------------------------------------------------------------
(* The file-variant discriminator (part_001 553-570) on API objects with    *)
(* every combination of the keys it looks at, and the way back through      *)
(* toApiFormat.  rehomed holds the call: its argument and what it returned. *)

ApiInputs ==
    {ApiFile(uuid, name, kind, path, extracted, size, type) :
        uuid \in {None, Some(21)},
        name \in {"data.txt", "plot.png"},
        kind \in {None, Some("image"), Some("document")},
        path \in {None, Some("/mnt/user-data/uploads/data.txt")},
        extracted \in {None, Some(Content(0, {})), Some(Content(10, {3}))},
        size \in {None, Some(10)},
        type \in {None, Some("text/plain")}}

InitVariant ==
    /\ msg = <<>> /\ restored = <<>> /\ completion = <<>> /\ rehomed = <<>>
    /\ messages = <<>> /\ op = "none" /\ maxTokens = 0 /\ greedy = FALSE
    /\ splitIndex = 0 /\ chunks = <<>> /\ out = <<>> /\ nextUuid = 0
    /\ IdlePhantom /\ IdleTree /\ IdleLater

variantUnchanged ==
    UNCHANGED <<msg, restored, completion, messages, maxTokens, greedy, splitIndex,
                chunks, out, nextUuid, phantomVars, treeVars, laterVars>>

\* parseFileFromAPI(apiData) on an object of files_v2, files or attachments
ParseFile ==
    /\ op = "none"
    /\ \E apiData \in ApiInputs :
          rehomed' = [via |-> "parseFileFromAPI", source |-> apiData,
                      result |-> parseFileFromAPI(apiData)]
    /\ op' = "parseFile"
    /\ variantUnchanged

\* ClaudeAttachment.fromText(text, fileName)
FromText ==
    /\ op = "none"
    /\ \E text \in {Content(0, {}), Content(10, {3})}, fileName \in {"data.txt", "s.txt"} :
          rehomed' = [via |-> "fromText", source |-> text,
                      result |-> ClaudeAttachment(fileName, text)]
    /\ op' = "fromText"
    /\ variantUnchanged

\* parseFileFromAPI(f.toApiFormat()) for the file f made last
ReparseFile ==
    /\ op \in {"parseFile", "fromText"}
    /\ rehomed.result.cls \in {"ClaudeFile", "ClaudeAttachment", "ClaudeCodeExecutionFile"}
    /\ rehomed' = [via |-> "toApiFormat", source |-> rehomed.result,
                   result |-> parseFileFromAPI(toApiFormat(rehomed.result))]
    /\ op' = "reparse"
    /\ variantUnchanged

NextVariant == ParseFile \/ FromText \/ ReparseFile

SpecVariant == InitVariant /\ [][NextVariant]_vars

\* C40: parseFileFromAPI yields a sandbox file when path is present, an
\* inline attachment when extracted content is present without path, a
\* hosted file when only the file uuid is present, and an error otherwise;
\* and parseFileFromAPI(f.toApiFormat()) is of the same variant as f.
C40_VariantTotalAndStable ==
    /\ op = "parseFile" =>
          LET apiData == rehomed.source
          IN  rehomed.result.cls =
                 CASE apiData.path # None -> "ClaudeCodeExecutionFile"
                   [] apiData.path = None /\ apiData.extracted_content # None ->
                         "ClaudeAttachment"
                   [] apiData.path = None /\ apiData.extracted_content = None
                      /\ apiData.file_uuid # None -> "ClaudeFile"
                   [] OTHER -> "Error: Unknown file format"
    /\ op = "reparse" => rehomed.result.cls = rehomed.source.cls

\* a sandbox file parsed from an object with a path, a uuid and extracted
\* text comes back from its own API format as a sandbox file (without text)
C40_Witness ==
    /\ op = "reparse"
    /\ rehomed.source.cls = "ClaudeCodeExecutionFile"
    /\ rehomed.source.file_uuid # None
    /\ rehomed.source.extracted_content = Some(Content(10, {3}))
    /\ rehomed.result.cls = "ClaudeCodeExecutionFile"
    /\ rehomed.result.extracted_content = None
=============================================================================
